---- MODULE Spec2Model ----
(***************************************************************************)
(* Model of the royalty splitter: the composer resolver, the grouping      *)
(* pass (processRawData), the percentage exports of                        *)
(* src/services/processor.ts and the upload/selection/processing state     *)
(* machine of src/App.tsx.                                                 *)
(*                                                                         *)
(* Text is a sequence of characters.  A character is a one-character       *)
(* string standing for itself, or a token "U+XXXX" standing for that code  *)
(* point (accented letters, the combining acute accent, tab, no-break      *)
(* space).  Column names are atomic strings.                               *)
(***************************************************************************)
EXTENDS Integers, Sequences, FiniteSets, TLC

VARIABLES
    appState,          \* App.tsx:14   'IDLE' | 'COLUMN_SELECTION' | 'PROCESSING' | 'COMPLETED'
    file,              \* App.tsx:13   the selected File, or NoFile
    rawData,           \* App.tsx:17   rows of the parsed table
    availableColumns,  \* App.tsx:18
    selectedColumns,   \* App.tsx:19
    processedData,     \* App.tsx:21   buckets of the last completed pass
    stats,             \* App.tsx:22
    pending,           \* the awaited promise of the running async handler
    lastCall,          \* arguments of the last processRawData invocation (App.tsx:79)
    lastAlert,         \* the last message shown with alert()
    rawLabel,          \* a raw composer label, argument of findActualComposer
    variant,           \* a re-spelling of rawLabel: [kind, text]
    resolved,          \* findActualComposer's results for rawLabel and variant
    exportRows,        \* data.rows of the composer card (part_000:147)
    adminPercent,      \* part_000:149  the text of the percentage input
    showModal,         \* part_000:148
    exported,          \* the content handed to the download (part_000:153)
    dualPercent,       \* the percentages of a generateCsvContentWithDualPercentage call
    pc                 \* position of the pure-function harnesses

vars == <<appState, file, rawData, availableColumns, selectedColumns,
          processedData, stats, pending, lastCall, lastAlert,
          rawLabel, variant, resolved,
          exportRows, adminPercent, showModal, exported, dualPercent, pc>>

appVars == <<appState, file, rawData, availableColumns, selectedColumns,
             processedData, stats, pending, lastCall, lastAlert>>

resolveVars == <<rawLabel, variant, resolved>>

exportVars == <<exportRows, adminPercent, showModal, exported, dualPercent>>

----------------------------------------------------------------------------
(* Program constants                                                       *)

MANDATORY_COLUMN == "Song Composer(s)"

KNOWN_COMPOSERS ==
    <<
       <<"A","l","m","o","s"," ","B","a","l","l","a">>,   \* 1: Almos Balla
       <<"A","N","D","R","A","W","E","S"," ","M","E","S","H","A","C","H">>,   \* 2: ANDRAWES MESHACH
       <<"F","E","L","I","X"," ","S","C","H","U","B","E","R","T">>,   \* 3: FELIX SCHUBERT
       <<"U","t","k","a","r","s","h"," ","V","a","i","s","h","n","a","v">>,   \* 4: Utkarsh Vaishnav
       <<"F","o","t","i","s"," ","M","y","l","o","n","a","s">>,   \* 5: Fotis Mylonas
       <<"M","o","i","s","e","s"," ","A","b","r","a","h","a","m"," ","M","o","n","a","s","t","e","r","i","o">>,   \* 6: Moises Abraham Monasterio
       <<"G","u","s","t","a","v","o"," ","D","i","a","s"," ","L","e","f","f","a">>,   \* 7: Gustavo Dias Leffa
       <<"I","o","n"," ","P","u","r","i","c","e">>,   \* 8: Ion Purice
       <<"O","y","b","e","k"," ","J","a","b","b","o","r","o","v">>,   \* 9: Oybek Jabborov
       <<"A","n","d","e","r","s","o","n"," ","S","a","n","t","o","s"," ","d","e"," ","P","a","u","l","a">>,   \* 10: Anderson Santos de Paula
       <<"N","o","e","l"," ","I","v","a","n"," ","M","o","n","t","e","m","a","y","o","r">>,   \* 11: Noel Ivan Montemayor
       <<"A","n","d","r","e","w"," ","S","h","o"," ","N","e","v","i","l","l","e">>,   \* 12: Andrew Sho Neville
       <<"J","e","s","u","s"," ","E","n","r","i","q","u","e"," ","F","e","r","n","a","n","d","e","z"," ","S","a","n","c","h","e","z">>,   \* 13: Jesus Enrique Fernandez Sanchez
       <<"M","i","l","t","o","n"," ","S","a","b","a","s"," ","M","a","r","t","i","n","e","z"," ","S","a","n","t","o","s">>,   \* 14: Milton Sabas Martinez Santos
       <<"D","e","n","n","i","s"," ","M","a","u","r","i","c","i","o"," ","d","e"," ","l","a"," ","T","o","r","r","e"," "," ","S","u","a","r","e","z">>,   \* 15: Dennis Mauricio de la Torre  Suarez
       <<"A","n","d","r","e","s"," ","R","o","m","a","r","i","o"," ","R","u","b","i","o"," ","M","a","n","z","a","n","o">>,   \* 16: Andres Romario Rubio Manzano
       <<"R","e","n","a","l","d","a","s"," ","A","l","e","i","n","i","k","o","v","a","s">>,   \* 17: Renaldas Aleinikovas
       <<"L","A","T","I","N"," ","H","O","U","S","E"," ","G","A","N","G">>,   \* 18: LATIN HOUSE GANG
       <<"I","a","n"," ","M","i","c","h","a","e","l"," ","B","e","r","n","a","l"," ","M","o","r","e","i","r","a">>,   \* 19: Ian Michael Bernal Moreira
       <<"R","a","u","l"," ","I","v","a","n"," ","G","a","r","c","i","a"," ","M","a","r","i","n">>,   \* 20: Raul Ivan Garcia Marin
       <<"J","e","s","u","s"," ","A","l","b","e","r","t","o"," ","L","o","p","e","z"," ","V","a","z","q","u","e","z">>,   \* 21: Jesus Alberto Lopez Vazquez
       <<"N","o","r","i","n","o","b","u"," ","Y","u">>,   \* 22: Norinobu Yu
       <<"J","o","r","g","e"," ","P","a","r","d","o"," ","C","o","r","d","e","r","o">>,   \* 23: Jorge Pardo Cordero
       <<"D","M","I","T","R","Y"," ","B","Y","S","T","R","O","V">>,   \* 24: DMITRY BYSTROV
       <<"A","b","d","e","l","N","a","s","e","r"," ","M","o","h","a","m","m","a","d"," ","A"," ","A","l","h","u","s","a","i","n","i">>,   \* 25: AbdelNaser Mohammad A Alhusaini
       <<"N","i","c","o","l","a","e"," ","P","u","r","i","c","e"," ","I","o","n"," ","T","u","d","o","r"," ","D","d","s">>,   \* 26: Nicolae Purice Ion Tudor Dds
       <<"M","a","r","c","o","s"," ","J","u","l","i","a","n"," ","G","a","l","a","n"," ","G","i","l">>,   \* 27: Marcos Julian Galan Gil
       <<"Y","U"," ","N","O","R","I","N","O","B","U">>    \* 28: YU NORINOBU
    >>

OUTLIERS_GROUP ==
    <<"G","o","o","d"," ","L","i","f","e"," ","C","o","m","p","o","s","e","r","s"," ","O","u","t","l","i","e","r","s">>

UnknownComposer ==
    <<"U","n","k","n","o","w","n"," ","C","o","m","p","o","s","e","r">>

COLUMN_MAPPING ==
    [c \in {"Date From (MM/YYYY)", "Date To (MM/YYYY)", "Song Title",
            "Song Composer(s)", "Territory", "Exploitation Source Name",
            "Usage Count", "Gross Amount", "Administration Amount", "Amount"} |->
        CASE c = "Date From (MM/YYYY)"      -> "Date From (MM/YYYY)"
          [] c = "Date To (MM/YYYY)"        -> "Date To (MM/YYYY)"
          [] c = "Song Title"               -> "TITLE"
          [] c = "Song Composer(s)"         -> "COMPOSER"
          [] c = "Territory"                -> "TERRITORY"
          [] c = "Exploitation Source Name" -> "SOURCE"
          [] c = "Usage Count"              -> "COUNT"
          [] c = "Gross Amount"             -> "GROSS AMOUNT"
          [] c = "Administration Amount"    -> "ADMIN %"
          [] c = "Amount"                   -> "NET AMOUNT"]

ESSENTIAL_COLUMNS ==
    <<"Date From (MM/YYYY)", "Date To (MM/YYYY)", "Song Title", "Song Composer(s)",
      "Territory", "Exploitation Source Name", "Usage Count", "Amount">>

----------------------------------------------------------------------------
(* Characters and the String methods the code calls                        *)

UpperLetters ==
    <<"A","B","C","D","E","F","G","H","I","J","K","L","M",
      "N","O","P","Q","R","S","T","U","V","W","X","Y","Z">>

LowerLetters ==
    <<"a","b","c","d","e","f","g","h","i","j","k","l","m",
      "n","o","p","q","r","s","t","u","v","w","x","y","z">>

Range(s) == {s[i] : i \in DOMAIN s}

IndexOf(s, c) == CHOOSE i \in DOMAIN s : s[i] = c

\* U+0301 COMBINING ACUTE ACCENT, the one mark of U+0300..U+036F in the model
CombiningMarks == {"U+0301"}

\* U+00C1 A-acute, U+00E1 a-acute, U+00C9 E-acute, U+00E9 e-acute
Precomposed == {"U+00C1", "U+00E1", "U+00C9", "U+00E9"}

\* space, U+0009 TAB, U+00A0 NO-BREAK SPACE: white space for String.prototype.trim
WhiteSpace == {" ", "U+0009", "U+00A0"}

\* String.prototype.toLowerCase on one character
LowerChar(c) ==
    CASE c \in Range(UpperLetters) -> LowerLetters[IndexOf(UpperLetters, c)]
      [] c = "U+00C1" -> "U+00E1"
      [] c = "U+00C9" -> "U+00E9"
      [] OTHER -> c

\* String.prototype.toUpperCase on one character (used to build input variants)
UpperChar(c) ==
    CASE c \in Range(LowerLetters) -> UpperLetters[IndexOf(LowerLetters, c)]
      [] c = "U+00E1" -> "U+00C1"
      [] c = "U+00E9" -> "U+00C9"
      [] OTHER -> c

\* Canonical decomposition (NFD) of one character
DecomposeChar(c) ==
    CASE c = "U+00C1" -> <<"A", "U+0301">>
      [] c = "U+00E1" -> <<"a", "U+0301">>
      [] c = "U+00C9" -> <<"E", "U+0301">>
      [] c = "U+00E9" -> <<"e", "U+0301">>
      [] OTHER -> <<c>>

RECURSIVE Flatten(_)
Flatten(ss) == IF ss = <<>> THEN <<>> ELSE Head(ss) \o Flatten(Tail(ss))

\* text.normalize('NFD')
NFD(text) == Flatten([i \in DOMAIN text |-> DecomposeChar(text[i])])

\* text.replace(/[U+0300-U+036F]/g, '')
StripMarks(text) == SelectSeq(text, LAMBDA c : c \notin CombiningMarks)

\* text.toLowerCase()
toLowerCase(text) == [i \in DOMAIN text |-> LowerChar(text[i])]

toUpperCase(text) == [i \in DOMAIN text |-> UpperChar(text[i])]

RECURSIVE TrimStart(_)
TrimStart(text) ==
    IF text # <<>> /\ Head(text) \in WhiteSpace THEN TrimStart(Tail(text)) ELSE text

RECURSIVE TrimEnd(_)
TrimEnd(text) ==
    IF text # <<>> /\ text[Len(text)] \in WhiteSpace
    THEN TrimEnd(SubSeq(text, 1, Len(text) - 1))
    ELSE text

\* text.trim()
trim(text) == TrimEnd(TrimStart(text))

\* haystack.includes(needle)
includes(haystack, needle) ==
    \E i \in 0..(Len(haystack) - Len(needle)) :
        SubSeq(haystack, i + 1, i + Len(needle)) = needle

\* text.replace(/ /g, "")
RemoveSpaces(text) == SelectSeq(text, LAMBDA c : c # " ")

----------------------------------------------------------------------------
(* processor.ts: normalizeFilename, normalizeForComparison,                *)
(* findActualComposer                                                      *)

FilenameSuffix == <<"_","r","o","y","a","l","t","i","e","s",".","c","s","v">>

\* name.toLowerCase().replace(" ", "") + "_royalties.csv": the first space only
RECURSIVE RemoveFirstSpace(_)
RemoveFirstSpace(text) ==
    IF text = <<>> THEN <<>>
    ELSE IF Head(text) = " " THEN Tail(text)
    ELSE <<Head(text)>> \o RemoveFirstSpace(Tail(text))

normalizeFilenameFirstSpace(name) == RemoveFirstSpace(toLowerCase(name)) \o FilenameSuffix

\* a file name made of the first word of the name only
normalizeFilenameFirstWord(name) ==
    LET lower == toLowerCase(name)
        stop  == IF " " \in Range(lower) THEN IndexOf(lower, " ") ELSE Len(lower) + 1
    IN  SubSeq(lower, 1, stop - 1) \o FilenameSuffix

normalizeFilename(name) == RemoveSpaces(toLowerCase(name)) \o FilenameSuffix

\* normalizeForComparison without the removal of the combining marks
normalizeKeepingAccents(text) == trim(toLowerCase(NFD(text)))

normalizeForComparison(text) == trim(toLowerCase(StripMarks(NFD(text))))

\* normalizedKnown of each loop iteration of findActualComposer
NormalizedKnown == [i \in DOMAIN KNOWN_COMPOSERS |-> normalizeForComparison(KNOWN_COMPOSERS[i])]

\* a roster scan that keeps the last entry contained in the label, not the first
ScanRosterKeepingLast(normalized, i) ==
    LET hits == { j \in i..Len(KNOWN_COMPOSERS) : includes(normalized, NormalizedKnown[j]) }
    IN  IF hits = {} THEN 0 ELSE CHOOSE m \in hits : \A n \in hits : n <= m

\* the for-of loop of findActualComposer, from roster index i on: the index
\* of the first entry contained in the normalized label, 0 when the loop ends
RECURSIVE ScanRoster(_, _)
ScanRoster(normalized, i) ==
    IF i > Len(KNOWN_COMPOSERS) THEN 0
    ELSE IF includes(normalized, NormalizedKnown[i]) THEN i
    ELSE ScanRoster(normalized, i + 1)

\* a resolver that makes an unmatched label an identity of its own
findActualComposerAdHoc(rawComposerText) ==
    LET normalized == normalizeForComparison(rawComposerText)
        hit == ScanRoster(normalized, 1)
    IN  IF hit # 0
        THEN [groupName |-> KNOWN_COMPOSERS[hit], cleanName |-> KNOWN_COMPOSERS[hit]]
        ELSE [groupName |-> rawComposerText, cleanName |-> rawComposerText]

\* a resolver that writes the group name as the clean name of an outlier
findActualComposerNamingGroup(rawComposerText) ==
    LET normalized == normalizeForComparison(rawComposerText)
        hit == ScanRoster(normalized, 1)
    IN  IF hit # 0
        THEN [groupName |-> KNOWN_COMPOSERS[hit], cleanName |-> KNOWN_COMPOSERS[hit]]
        ELSE [groupName |-> OUTLIERS_GROUP, cleanName |-> OUTLIERS_GROUP]

findActualComposer(rawComposerText) ==
    LET normalized == normalizeForComparison(rawComposerText)
        hit == ScanRoster(normalized, 1)
    IN  IF hit # 0
        THEN [groupName |-> KNOWN_COMPOSERS[hit], cleanName |-> KNOWN_COMPOSERS[hit]]
        ELSE [groupName |-> OUTLIERS_GROUP, cleanName |-> rawComposerText]

----------------------------------------------------------------------------
(* Vocabulary of the properties of the resolver                            *)

\* roster indices of the entries whose normalized form the normalized label contains
Contained(label) ==
    LET normalized == normalizeForComparison(label)
    IN  { i \in DOMAIN KNOWN_COMPOSERS : includes(normalized, NormalizedKnown[i]) }

Min(S) == CHOOSE m \in S : \A n \in S : m <= n

\* position (0-based) of the first occurrence of needle in haystack
FirstAt(haystack, needle) ==
    Min({ i \in 0..(Len(haystack) - Len(needle)) :
            SubSeq(haystack, i + 1, i + Len(needle)) = needle })

LabelPosition(label, i) ==
    FirstAt(normalizeForComparison(label), normalizeForComparison(KNOWN_COMPOSERS[i]))

----------------------------------------------------------------------------
(* Cells and rows (RawCsvRow: string | number | boolean | null per column) *)

\* a cell value; v is the text of a string, n the value of a number (an
\* integer in this model) or 1/0 for true/false
StringCell(text) == [t |-> "string", v |-> text, n |-> 0]

NumberCell(n) == [t |-> "number", v |-> <<>>, n |-> n]

BooleanCell(b) == [t |-> "boolean", v |-> <<>>, n |-> IF b THEN 1 ELSE 0]

NullCell == [t |-> "null", v |-> <<>>, n |-> 0]

Undefined == [t |-> "undefined", v |-> <<>>, n |-> 0]

\* row[col]: a row is a function from the column names it has to cells
Get(row, col) == IF col \in DOMAIN row THEN row[col] ELSE Undefined

\* JavaScript truthiness of a cell
Truthy(cell) ==
    CASE cell.t = "string"  -> cell.v # <<>>
      [] cell.t = "number"  -> cell.n # 0
      [] cell.t = "boolean" -> cell.n = 1
      [] OTHER -> FALSE

Digits == <<"0","1","2","3","4","5","6","7","8","9">>

RECURSIVE NatToText(_)
NatToText(n) ==
    IF n < 10 THEN <<Digits[n + 1]>> ELSE NatToText(n \div 10) \o <<Digits[(n % 10) + 1]>>

\* String(val)
String(cell) ==
    CASE cell.t = "string"  -> cell.v
      [] cell.t = "number"  -> IF cell.n < 0 THEN <<"-">> \o NatToText(-cell.n)
                                             ELSE NatToText(cell.n)
      [] cell.t = "boolean" -> IF cell.n = 1 THEN <<"t","r","u","e">>
                                             ELSE <<"f","a","l","s","e">>
      [] cell.t = "null"    -> <<"n","u","l","l">>
      [] OTHER              -> <<"u","n","d","e","f","i","n","e","d">>

----------------------------------------------------------------------------
(* processor.ts: processRawData                                            *)

\* String(rawComposer).trim() without the placeholder
RawComposerTextWithoutPlaceholder(row) == trim(String(Get(row, MANDATORY_COLUMN)))

\* rawComposerText of a row
RawComposerText(row) ==
    LET rawComposer == Get(row, MANDATORY_COLUMN)
    IN  IF Truthy(rawComposer) THEN trim(String(rawComposer)) ELSE UnknownComposer

\* a cell text taken without the null/undefined test
CellValueStringified(row, col) == String(Get(row, col))

\* cellValue of column col
CellValue(row, col) ==
    LET val == Get(row, col)
    IN  IF val.t = "null" \/ val.t = "undefined" THEN <<>> ELSE String(val)

\* COLUMN_MAPPING[col] || col
OutputColumnName(col) == IF col \in DOMAIN COLUMN_MAPPING THEN COLUMN_MAPPING[col] ELSE col

\* the value written under outputColumnName that keeps the raw cell text
\* in the COMPOSER column
KeptRawValue(outputColumnName, cellValue, cleanName) == cellValue

\* the value written under outputColumnName
WrittenValue(outputColumnName, cellValue, cleanName) ==
    IF outputColumnName = "COMPOSER" THEN cleanName ELSE cellValue

\* obj[key] = value
Put(obj, key, value) ==
    [k \in DOMAIN obj \cup {key} |-> IF k = key THEN value ELSE obj[k]]

EmptyObject == [k \in {} |-> <<>>]

\* columnsToKeep.forEach(col => ...), from index i on
RECURSIVE FilterColumns(_, _, _, _, _)
FilterColumns(row, columnsToKeep, cleanName, i, filteredRow) ==
    IF i > Len(columnsToKeep) THEN filteredRow
    ELSE LET col == columnsToKeep[i]
             outputColumnName == OutputColumnName(col)
         IN  FilterColumns(row, columnsToKeep, cleanName, i + 1,
                 Put(filteredRow, outputColumnName,
                     WrittenValue(outputColumnName, CellValue(row, col), cleanName)))

\* filteredRow without the assignment of the ARTIST column
FilteredRowWithoutArtist(row, columnsToKeep, cleanName) ==
    FilterColumns(row, columnsToKeep, cleanName, 1, EmptyObject)

\* filteredRow of one input row
FilteredRow(row, columnsToKeep, cleanName) ==
    Put(FilterColumns(row, columnsToKeep, cleanName, 1, EmptyObject), "ARTIST", <<>>)

\* groupMap is a sequence of [key, rows] entries in insertion order
MapHas(groupMap, key) == \E j \in DOMAIN groupMap : groupMap[j].key = key

MapSet(groupMap, key, value) ==
    IF MapHas(groupMap, key)
    THEN [j \in DOMAIN groupMap |->
            IF groupMap[j].key = key THEN [key |-> key, rows |-> value] ELSE groupMap[j]]
    ELSE Append(groupMap, [key |-> key, rows |-> value])

MapGet(groupMap, key) ==
    groupMap[CHOOSE j \in DOMAIN groupMap : groupMap[j].key = key].rows

\* a grouping loop that sets a fresh list for the group at every row
RECURSIVE GroupRowsResetting(_, _, _, _)
GroupRowsResetting(rows, columnsToKeep, i, groupMap) ==
    IF i > Len(rows) THEN groupMap
    ELSE LET id          == findActualComposer(RawComposerText(rows[i]))
             withGroup   == MapSet(groupMap, id.groupName, <<>>)
             filteredRow == FilteredRow(rows[i], columnsToKeep, id.cleanName)
         IN  GroupRowsResetting(rows, columnsToKeep, i + 1,
                 MapSet(withGroup, id.groupName,
                        Append(MapGet(withGroup, id.groupName), filteredRow)))

\* a pass that keys the bucket map by the clean name
RECURSIVE GroupRowsByCleanName(_, _, _, _)
GroupRowsByCleanName(rows, columnsToKeep, i, groupMap) ==
    IF i > Len(rows) THEN groupMap
    ELSE LET id          == findActualComposer(RawComposerText(rows[i]))
             withGroup   == IF MapHas(groupMap, id.cleanName) THEN groupMap
                            ELSE MapSet(groupMap, id.cleanName, <<>>)
             filteredRow == FilteredRow(rows[i], columnsToKeep, id.cleanName)
         IN  GroupRowsByCleanName(rows, columnsToKeep, i + 1,
                 MapSet(withGroup, id.cleanName,
                        Append(MapGet(withGroup, id.cleanName), filteredRow)))

\* a grouping loop that puts every row at the front of its bucket
RECURSIVE GroupRowsPrepending(_, _, _, _)
GroupRowsPrepending(rows, columnsToKeep, i, groupMap) ==
    IF i > Len(rows) THEN groupMap
    ELSE LET id          == findActualComposer(RawComposerText(rows[i]))
             withGroup   == IF MapHas(groupMap, id.groupName) THEN groupMap
                            ELSE MapSet(groupMap, id.groupName, <<>>)
             filteredRow == FilteredRow(rows[i], columnsToKeep, id.cleanName)
         IN  GroupRowsPrepending(rows, columnsToKeep, i + 1,
                 MapSet(withGroup, id.groupName,
                        <<filteredRow>> \o MapGet(withGroup, id.groupName)))

\* rawData.forEach((row) => ...), from index i on
RECURSIVE GroupRows(_, _, _, _)
GroupRows(rows, columnsToKeep, i, groupMap) ==
    IF i > Len(rows) THEN groupMap
    ELSE LET id          == findActualComposer(RawComposerText(rows[i]))
             withGroup   == IF MapHas(groupMap, id.groupName) THEN groupMap
                            ELSE MapSet(groupMap, id.groupName, <<>>)
             filteredRow == FilteredRow(rows[i], columnsToKeep, id.cleanName)
         IN  GroupRows(rows, columnsToKeep, i + 1,
                 MapSet(withGroup, id.groupName,
                        Append(MapGet(withGroup, id.groupName), filteredRow)))

\* collation weight of a character at the first (alphabetic) level: white
\* space before digits before letters, upper and lower case alike
PrimaryWeight(c) ==
    CASE c \in WhiteSpace -> 1
      [] c \in Range(Digits) -> 10 + IndexOf(Digits, c)
      [] c \in Range(LowerLetters) -> 100 + IndexOf(LowerLetters, c)
      [] c \in Range(UpperLetters) -> 100 + IndexOf(UpperLetters, c)
      [] OTHER -> 2

\* collation weight at the case level: lower case before upper case
CaseWeight(c) == IF c \in Range(UpperLetters) THEN 1 ELSE 0

\* -1, 0 or 1: the order of two weight sequences, first difference decides
RECURSIVE CompareWeights(_, _)
CompareWeights(a, b) ==
    CASE a = <<>> /\ b = <<>> -> 0
      [] a = <<>> /\ b # <<>> -> -1
      [] a # <<>> /\ b = <<>> -> 1
      [] OTHER -> IF Head(a) < Head(b) THEN -1
                  ELSE IF Head(a) > Head(b) THEN 1
                  ELSE CompareWeights(Tail(a), Tail(b))

\* a.localeCompare(b): the alphabetic level decides, the case level breaks ties
localeCompare(a, b) ==
    LET primary == CompareWeights([i \in DOMAIN a |-> PrimaryWeight(a[i])],
                                  [i \in DOMAIN b |-> PrimaryWeight(b[i])])
    IN  IF primary # 0 THEN primary
        ELSE CompareWeights([i \in DOMAIN a |-> CaseWeight(a[i])],
                            [i \in DOMAIN b |-> CaseWeight(b[i])])

\* a comparator that orders every bucket by name, the outliers group too
CompareByNameOnly(a, b) == localeCompare(a.composerName, b.composerName)

\* the comparator handed to processedData.sort
CompareBuckets(a, b) ==
    IF a.composerName = OUTLIERS_GROUP THEN 1
    ELSE IF b.composerName = OUTLIERS_GROUP THEN -1
    ELSE localeCompare(a.composerName, b.composerName)

\* Array.prototype.sort: a stable insertion of each element into the sorted prefix
RECURSIVE InsertSorted(_, _)
InsertSorted(x, sorted) ==
    IF sorted = <<>> THEN <<x>>
    ELSE IF CompareBuckets(x, Head(sorted)) < 0 THEN <<x>> \o sorted
    ELSE <<Head(sorted)>> \o InsertSorted(x, Tail(sorted))

RECURSIVE SortBuckets(_)
SortBuckets(buckets) ==
    IF buckets = <<>> THEN <<>>
    ELSE InsertSorted(buckets[Len(buckets)], SortBuckets(SubSeq(buckets, 1, Len(buckets) - 1)))

\* Array.from(groupMap.entries()).map(...)
ToBuckets(groupMap) ==
    [j \in DOMAIN groupMap |->
        [composerName |-> groupMap[j].key,
         filename     |-> normalizeFilename(groupMap[j].key),
         rows         |-> groupMap[j].rows,
         rowCount     |-> Len(groupMap[j].rows)]]

\* the value processRawData's promise resolves with (processingTimeMs, a
\* wall-clock reading, is left out)
processRawData(rows, columnsToKeep) ==
    LET sorted == SortBuckets(ToBuckets(GroupRows(rows, columnsToKeep, 1, <<>>)))
    IN  [data  |-> sorted,
         stats |-> [totalRows |-> Len(rows), totalComposers |-> Len(sorted)]]

----------------------------------------------------------------------------
(* JavaScript numbers: IEEE 754 binary64 with round-to-nearest-even.       *)
(* A finite number is (-1)^neg * m * 2^e with m a natural number of        *)
(* exactly 53 bits, or m = 0.  Naturals are sequences of limbs, least      *)
(* significant first, without leading zero limbs.  Subnormal numbers,      *)
(* overflow, infinities and the sign of zero are outside the model: the    *)
(* amounts and percentages of a statement are far from those ranges.       *)

\* F(v) and F(v, w) with the arguments computed once, as a const binding
Let(v, F(_)) == CHOOSE r \in {F(x) : x \in {v}} : TRUE

Let2(v, w, F(_, _)) == CHOOSE r \in {F(x, y) : x \in {v}, y \in {w}} : TRUE

LimbBits == 15

LimbBase == 2^LimbBits

Limb(a, i) == IF i <= Len(a) THEN a[i] ELSE 0

\* the index of the most significant non-zero limb among a[1..i], or 0
RECURSIVE BTop(_, _)
BTop(a, i) == IF i = 0 \/ a[i] # 0 THEN i ELSE BTop(a, i - 1)

BNorm(a) == Let(a, LAMBDA x : SubSeq(x, 1, BTop(x, Len(x))))

RECURSIVE BFromNat(_)
BFromNat(n) == IF n = 0 THEN <<>> ELSE <<n % LimbBase>> \o BFromNat(n \div LimbBase)

BOne == <<1>>

RECURSIVE BCmpFrom(_, _, _)
BCmpFrom(a, b, i) ==
    IF i = 0 THEN 0
    ELSE IF a[i] < b[i] THEN -1
    ELSE IF a[i] > b[i] THEN 1
    ELSE BCmpFrom(a, b, i - 1)

\* -1, 0, 1: the order of two naturals
BCmp(a, b) ==
    Let2(a, b, LAMBDA x, y :
        IF Len(x) < Len(y) THEN -1
        ELSE IF Len(x) > Len(y) THEN 1
        ELSE BCmpFrom(x, y, Len(x)))

RECURSIVE BAddFrom(_, _, _, _)
BAddFrom(a, b, i, carry) ==
    IF i > Len(a) /\ i > Len(b)
    THEN IF carry = 0 THEN <<>> ELSE <<carry>>
    ELSE Let(Limb(a, i) + Limb(b, i) + carry, LAMBDA t :
             <<t % LimbBase>> \o BAddFrom(a, b, i + 1, t \div LimbBase))

BAdd(a, b) == Let2(a, b, LAMBDA x, y : BAddFrom(x, y, 1, 0))

RECURSIVE BSubFrom(_, _, _, _)
BSubFrom(a, b, i, borrow) ==
    IF i > Len(a) THEN <<>>
    ELSE Let(a[i] - Limb(b, i) - borrow, LAMBDA t :
             IF t < 0 THEN <<t + LimbBase>> \o BSubFrom(a, b, i + 1, 1)
                      ELSE <<t>> \o BSubFrom(a, b, i + 1, 0))

\* a - b for a >= b
BSub(a, b) == Let2(a, b, LAMBDA x, y : BNorm(BSubFrom(x, y, 1, 0)))

RECURSIVE BMulSmallFrom(_, _, _, _)
BMulSmallFrom(a, d, i, carry) ==
    IF i > Len(a)
    THEN IF carry = 0 THEN <<>> ELSE <<carry>>
    ELSE Let(a[i] * d + carry, LAMBDA t :
             <<t % LimbBase>> \o BMulSmallFrom(a, d, i + 1, t \div LimbBase))

\* a * d for a limb d
BMulSmall(a, d) == Let2(a, d, LAMBDA x, y : BNorm(BMulSmallFrom(x, y, 1, 0)))

BShiftLimbs(a, k) ==
    Let2(a, k, LAMBDA x, y : IF x = <<>> THEN <<>> ELSE [i \in 1..y |-> 0] \o x)

RECURSIVE BMulFrom(_, _, _)
BMulFrom(a, b, j) ==
    IF j > Len(b) THEN <<>>
    ELSE BAdd(BShiftLimbs(BMulSmall(a, b[j]), j - 1), BMulFrom(a, b, j + 1))

BMul(a, b) == Let2(a, b, LAMBDA x, y : BNorm(BMulFrom(x, y, 1)))

\* a * 2^k
BShl(a, k) ==
    Let(k, LAMBDA y : BShiftLimbs(BMulSmall(a, 2^(y % LimbBits)), y \div LimbBits))

RECURSIVE SmallBitLen(_)
SmallBitLen(n) == IF n = 0 THEN 0 ELSE 1 + SmallBitLen(n \div 2)

\* the number of bits of a
BitLen(a) ==
    Let(a, LAMBDA x :
        IF x = <<>> THEN 0 ELSE LimbBits * (Len(x) - 1) + SmallBitLen(x[Len(x)]))

BIsOdd(a) == Let(a, LAMBDA x : x # <<>> /\ x[1] % 2 = 1)

\* quotient and remainder of n by d > 0, one bit of the quotient a step
RECURSIVE BDivModBits(_, _)
BDivModBits(n, d) ==
    Let2(n, d, LAMBDA x, y :
        IF BCmp(x, y) < 0 THEN [q |-> <<>>, r |-> x]
        ELSE Let(BDivModBits(x, BAdd(y, y)), LAMBDA h :
                 IF BCmp(h.r, y) >= 0
                 THEN [q |-> BAdd(BAdd(h.q, h.q), BOne), r |-> BSub(h.r, y)]
                 ELSE [q |-> BAdd(h.q, h.q), r |-> h.r]))

\* long division: limb j of the quotient, then the limbs below it
RECURSIVE BDivModFrom(_, _, _)
BDivModFrom(n, d, j) ==
    IF j < 0 THEN [q |-> <<>>, r |-> n]
    ELSE Let(BDivModBits(n, BShiftLimbs(d, j)), LAMBDA h :
             Let(BDivModFrom(h.r, d, j - 1), LAMBDA rest :
                 [q |-> BAdd(BShiftLimbs(h.q, j), rest.q), r |-> rest.r]))

RECURSIVE BDivSmallFrom(_, _, _, _)
BDivSmallFrom(a, d, i, rem) ==
    IF i = 0 THEN <<>>
    ELSE Let(rem * LimbBase + a[i], LAMBDA cur :
             BDivSmallFrom(a, d, i - 1, cur % d) \o <<cur \div d>>)

\* the quotient of a by a limb d > 0
BDivSmall(a, d) == Let2(a, d, LAMBDA x, y : BNorm(BDivSmallFrom(x, y, Len(x), 0)))

\* the quotient of a by 2^k
BShr(a, k) ==
    Let2(a, k, LAMBDA x, y :
        IF y \div LimbBits >= Len(x) THEN <<>>
        ELSE BDivSmall(SubSeq(x, (y \div LimbBits) + 1, Len(x)), 2^(y % LimbBits)))

RECURSIVE SmallTrailingZeros(_)
SmallTrailingZeros(n) == IF n % 2 = 1 THEN 0 ELSE 1 + SmallTrailingZeros(n \div 2)

\* the number of times 2 divides d > 0
RECURSIVE TrailingZerosFrom(_, _)
TrailingZerosFrom(d, i) ==
    IF d[i] = 0 THEN LimbBits + TrailingZerosFrom(d, i + 1) ELSE SmallTrailingZeros(d[i])

\* quotient and remainder of n by d > 0; when d is a limb times a power
\* of two the quotient is found limb by limb
BDivMod(n, d) ==
    Let2(n, d, LAMBDA x, y :
        Let(TrailingZerosFrom(y, 1), LAMBDA t :
            Let(BShr(y, t), LAMBDA odd :
                IF Len(odd) = 1
                THEN Let(BDivSmall(BShr(x, t), odd[1]), LAMBDA q :
                         [q |-> q, r |-> BSub(x, BMul(q, y))])
                ELSE Let(BitLen(x) - BitLen(y), LAMBDA len :
                         BDivModFrom(x, y, IF len < 0 THEN 0 ELSE len \div LimbBits)))))

\* bits of the significand of a binary64 number
Precision == 53

NaN == [nan |-> TRUE, neg |-> FALSE, m |-> <<>>, e |-> 0]

Zero == [nan |-> FALSE, neg |-> FALSE, m |-> <<>>, e |-> 0]

\* n * 2^j and d * 2^i with n / d = (n0 / d0) * 2^(-k) in [2^52, 2^53)
Scale(n0, d0) ==
    Let(BitLen(n0) - BitLen(d0) - Precision, LAMBDA k0 :
        Let2(IF k0 < 0 THEN BShl(n0, -k0) ELSE n0,
             IF k0 > 0 THEN BShl(d0, k0) ELSE d0, LAMBDA n1, d1 :
            IF BCmp(n1, BShl(d1, Precision)) >= 0
            THEN [n |-> n1, d |-> BAdd(d1, d1), k |-> k0 + 1]
            ELSE [n |-> n1, d |-> d1, k |-> k0]))

\* the quotient dm.q of 53 bits, rounded to nearest by the remainder dm.r
\* of the division by d, ties to even
RoundQuotient(neg, dm, d, e) ==
    Let(BCmp(BAdd(dm.r, dm.r), d), LAMBDA c :
        Let(IF c > 0 \/ (c = 0 /\ BIsOdd(dm.q)) THEN BAdd(dm.q, BOne) ELSE dm.q, LAMBDA m :
            IF BitLen(m) > Precision
            THEN [nan |-> FALSE, neg |-> neg, m |-> BShl(BOne, Precision - 1), e |-> e + 1]
            ELSE [nan |-> FALSE, neg |-> neg, m |-> m, e |-> e]))

\* the binary64 number nearest to (-1)^neg * (n / d) * 2^e0, ties to even
RoundToDouble(neg, n, d, e0) ==
    Let2(n, d, LAMBDA n0, d0 :
        IF n0 = <<>> THEN Zero
        ELSE Let(Scale(n0, d0), LAMBDA s :
                 Let(BDivMod(s.n, s.d), LAMBDA dm :
                     RoundQuotient(neg, dm, s.d, e0 + s.k))))

\* exact arithmetic on the values (-1)^neg * m * 2^e, m of any length
Exact(neg, m, e) ==
    Let(m, LAMBDA x : [nan |-> FALSE, neg |-> neg /\ x # <<>>, m |-> x, e |-> e])

ExactMul(x, y) ==
    Let2(x, y, LAMBDA a, b : Exact(a.neg # b.neg, BMul(a.m, b.m), a.e + b.e))

ExactNeg(x) == Let(x, LAMBDA a : Exact(~a.neg, a.m, a.e))

ExactAbs(x) == Let(x, LAMBDA a : Exact(FALSE, a.m, a.e))

\* x * 2^k
ExactShift(x, k) == Let(x, LAMBDA a : Exact(a.neg, a.m, a.e + k))

ExactAdd(x, y) ==
    Let2(x, y, LAMBDA a, b :
        Let(IF a.e < b.e THEN a.e ELSE b.e, LAMBDA e :
            Let2(BShl(a.m, a.e - e), BShl(b.m, b.e - e), LAMBDA am, bm :
                IF a.neg = b.neg THEN Exact(a.neg, BAdd(am, bm), e)
                ELSE IF BCmp(am, bm) >= 0 THEN Exact(a.neg, BSub(am, bm), e)
                ELSE Exact(b.neg, BSub(bm, am), e))))

ExactSub(x, y) == ExactAdd(x, ExactNeg(y))

\* x <= y
ExactLeq(x, y) == Let(ExactSub(x, y), LAMBDA d : d.neg \/ d.m = <<>>)

\* x = y as values
ExactEq(x, y) == ExactSub(x, y).m = <<>>

\* the number n, a natural below 2^31
FromNat(n) == RoundToDouble(FALSE, BFromNat(n), BOne, 0)

\* x * y
NumberMul(x, y) ==
    Let2(x, y, LAMBDA a, b :
        IF a.nan \/ b.nan THEN NaN
        ELSE RoundToDouble(a.neg # b.neg, BMul(a.m, b.m), BOne, a.e + b.e))

\* x / y for y # 0
NumberDiv(x, y) ==
    Let2(x, y, LAMBDA a, b :
        IF a.nan \/ b.nan THEN NaN
        ELSE RoundToDouble(a.neg # b.neg, a.m, b.m, a.e - b.e))

\* x - y
NumberSub(x, y) ==
    Let2(x, y, LAMBDA a, b :
        IF a.nan \/ b.nan THEN NaN
        ELSE Let(ExactSub(a, b), LAMBDA d : RoundToDouble(d.neg, d.m, BOne, d.e)))

\* x + y
NumberAdd(x, y) ==
    Let2(x, y, LAMBDA a, b :
        IF a.nan \/ b.nan THEN NaN
        ELSE Let(ExactAdd(a, b), LAMBDA d : RoundToDouble(d.neg, d.m, BOne, d.e)))

\* x || 0 for a number x
OrZero(x) == Let(x, LAMBDA a : IF a.nan \/ a.m = <<>> THEN Zero ELSE a)

RECURSIVE TakeDigits(_)
TakeDigits(text) ==
    IF text # <<>> /\ Head(text) \in Range(Digits)
    THEN <<Head(text)>> \o TakeDigits(Tail(text))
    ELSE <<>>

RECURSIVE DigitsToNat(_, _)
DigitsToNat(digits, acc) ==
    IF digits = <<>> THEN acc
    ELSE DigitsToNat(Tail(digits),
                     BAdd(BMulSmall(acc, 10), BFromNat(IndexOf(Digits, Head(digits)) - 1)))

RECURSIVE PowerOfTen(_)
PowerOfTen(k) == IF k = 0 THEN BOne ELSE BMulSmall(PowerOfTen(k - 1), 10)

\* the digits of the integer part and of the fraction at the head of body
DecimalParts(body) ==
    Let(TakeDigits(body), LAMBDA intPart :
        Let(SubSeq(body, Len(intPart) + 1, Len(body)), LAMBDA rest :
            [int  |-> intPart,
             frac |-> IF rest # <<>> /\ Head(rest) = "." THEN TakeDigits(Tail(rest))
                      ELSE <<>>]))

\* parseFloat(text): white space, a sign, digits with an optional fraction;
\* what follows is ignored; NaN without a digit (exponents and "Infinity"
\* are not part of the model's texts)
parseFloat(text) ==
    Let(TrimStart(text), LAMBDA t :
        Let(DecimalParts(IF t # <<>> /\ Head(t) \in {"+", "-"} THEN Tail(t) ELSE t),
            LAMBDA parts :
                IF parts.int = <<>> /\ parts.frac = <<>> THEN NaN
                ELSE RoundToDouble(t # <<>> /\ Head(t) = "-",
                                   DigitsToNat(parts.int \o parts.frac, <<>>),
                                   PowerOfTen(Len(parts.frac)), 0)))

----------------------------------------------------------------------------
(* Values shared by the specifications                                     *)

NoFile == [kind |-> "null"]

NoStats == [kind |-> "null"]

NoCall == [kind |-> "none"]

NoResult == [kind |-> "none"]

NoVariant == [kind |-> "none", text |-> <<>>]

AppIdle ==
    /\ appState = "IDLE"
    /\ file = NoFile
    /\ rawData = <<>>
    /\ availableColumns = <<>>
    /\ selectedColumns = <<>>
    /\ processedData = <<>>
    /\ stats = NoStats
    /\ pending = "none"
    /\ lastCall = NoCall
    /\ lastAlert = "none"

ResolveIdle ==
    /\ rawLabel = <<>>
    /\ variant = NoVariant
    /\ resolved = NoResult

\* useState('15')
DefaultAdminPercent == <<"1", "5">>

ExportIdle ==
    /\ exportRows = <<>>
    /\ adminPercent = DefaultAdminPercent
    /\ showModal = FALSE
    /\ exported = NoResult
    /\ dualPercent = NoCall

----------------------------------------------------------------------------
(* Sample tables: the rows a parsed royalty statement may hold             *)

\* most rows of a table
MaxRows == 3

TextHit == <<"H","i","t">>

TextAlt == <<"A","l","t">>

TextBand == <<"B","a","n","d">>

\* a roster entry as the roster spells it
RowAlmos ==
    [c \in {"Song Composer(s)", "Song Title", "TITLE", "Amount", "ARTIST"} |->
        CASE c = "Song Composer(s)" -> StringCell(<<"A","l","m","o","s"," ","B","a","l","l","a">>)
          [] c = "Song Title" -> StringCell(TextHit)
          [] c = "TITLE"      -> StringCell(TextAlt)
          [] c = "Amount"     -> StringCell(<<"1","0","0">>)
          [] c = "ARTIST"     -> StringCell(TextBand)]

\* a roster entry in another case behind a source prefix; no TITLE cell
RowIon ==
    [c \in {"Song Composer(s)", "Song Title", "Amount"} |->
        CASE c = "Song Composer(s)" -> StringCell(<<" ","G","L"," ","-"," ","I","O","N"," ","P","U","R","I","C","E"," ">>)
          [] c = "Song Title" -> StringCell(TextHit)
          [] c = "Amount"     -> StringCell(<<"0",".","0","1">>)]

\* an upper-case roster entry; a null title and a numeric amount
RowAndrawes ==
    [c \in {"Song Composer(s)", "Song Title", "TITLE", "Amount"} |->
        CASE c = "Song Composer(s)" -> StringCell(<<"A","N","D","R","A","W","E","S"," ","M","E","S","H","A","C","H">>)
          [] c = "Song Title" -> NullCell
          [] c = "TITLE"      -> StringCell(TextAlt)
          [] c = "Amount"     -> NumberCell(3)]

\* a composer the roster does not know; an amount that is no number
RowStranger ==
    [c \in {"Song Composer(s)", "Song Title", "TITLE", "Amount"} |->
        CASE c = "Song Composer(s)" -> StringCell(<<"J","a","n","e"," ","D","o","e"," ">>)
          [] c = "Song Title" -> StringCell(TextHit)
          [] c = "TITLE"      -> StringCell(<<>>)
          [] c = "Amount"     -> StringCell(<<"a","b","c">>)]

\* a composer cell of white space only
RowBlank ==
    [c \in {"Song Composer(s)", "Amount", "ARTIST"} |->
        CASE c = "Song Composer(s)" -> StringCell(<<" ", " ">>)
          [] c = "Amount"     -> StringCell(<<>>)
          [] c = "ARTIST"     -> BooleanCell(TRUE)]

\* no composer cell at all
RowMissing ==
    [c \in {"Song Title", "Amount"} |->
        CASE c = "Song Title" -> StringCell(TextAlt)
          [] c = "Amount"     -> NullCell]

\* a numeric composer cell
RowZero ==
    [c \in {"Song Composer(s)", "Song Title"} |->
        CASE c = "Song Composer(s)" -> NumberCell(0)
          [] c = "Song Title" -> NumberCell(-12)]

SampleRows == {RowAlmos, RowIon, RowAndrawes, RowStranger, RowBlank, RowMissing, RowZero}

Tables == UNION { [1..n -> SampleRows] : n \in 0..MaxRows }

\* column selections the selection screen can produce from the headers
\* Song Title, Song Composer(s), TITLE, Amount, ARTIST
ColumnChoices ==
    { <<"Song Title", "Song Composer(s)", "Amount">>,
      <<"Song Composer(s)", "Amount", "TITLE", "Song Title">>,
      <<"Song Title", "Song Composer(s)", "TITLE", "ARTIST">> }

----------------------------------------------------------------------------
(* Specification SpecProcess: one grouping pass over a table               *)

InitProcess ==
    /\ appState = "PROCESSING"
    /\ file = NoFile
    /\ rawData \in Tables
    /\ availableColumns = <<>>
    /\ selectedColumns \in ColumnChoices
    /\ processedData = <<>>
    /\ stats = NoStats
    /\ pending = "process"
    /\ lastCall = NoCall
    /\ lastAlert = "none"
    /\ ResolveIdle
    /\ ExportIdle
    /\ pc = "call"

\* processRawData(rawData, selectedColumns) resolves
ProcessPass ==
    /\ pc = "call"
    /\ LET result == processRawData(rawData, selectedColumns)
       IN  /\ processedData' = result.data
           /\ stats' = result.stats
    /\ lastCall' = [kind |-> "call", file |-> file,
                    rawData |-> rawData, columnsToKeep |-> selectedColumns]
    /\ appState' = "COMPLETED"
    /\ pending' = "none"
    /\ pc' = "done"
    /\ UNCHANGED <<file, rawData, availableColumns, selectedColumns, lastAlert, resolveVars, exportVars>>

NextProcess == ProcessPass

SpecProcess == InitProcess /\ [][NextProcess]_vars

RECURSIVE SumRowCounts(_)
SumRowCounts(buckets) ==
    IF buckets = <<>> THEN 0 ELSE Head(buckets).rowCount + SumRowCounts(Tail(buckets))

\* the identity each sample row is resolved to
IdentityOf == [row \in SampleRows |-> findActualComposer(RawComposerText(row))]

\* the group a row is resolved to
GroupOf(row) == IdentityOf[row].groupName

\* indices of the buckets named name
BucketsNamed(buckets, name) == { j \in DOMAIN buckets : buckets[j].composerName = name }

\* C1: the buckets partition the input: the row counts add up to the number
\* of input rows, which is stats.totalRows, and every bucket holds as many
\* rows as the input has rows resolved to its identity, in exactly one bucket.
C1_BucketsPartitionInput ==
    pc = "done" =>
        /\ SumRowCounts(processedData) = Len(rawData)
        /\ stats.totalRows = Len(rawData)
        /\ \A i \in DOMAIN rawData : Cardinality(BucketsNamed(processedData, GroupOf(rawData[i]))) = 1
        /\ \A j \in DOMAIN processedData :
              /\ processedData[j].rowCount = Len(processedData[j].rows)
              /\ Len(processedData[j].rows) =
                    Cardinality({ i \in DOMAIN rawData : GroupOf(rawData[i]) = processedData[j].composerName })

\* C1 witness: a finished pass over three rows, two of them in one bucket
\* and one in another.
C1_Witness ==
    /\ pc = "done"
    /\ Len(rawData) = 3
    /\ Len(processedData) = 2
    /\ \E j \in DOMAIN processedData : processedData[j].rowCount = 2

\* UTF-16 code unit of a character of a composer name
CodeUnit(c) ==
    CASE c \in Range(UpperLetters) -> 64 + IndexOf(UpperLetters, c)
      [] c \in Range(LowerLetters) -> 96 + IndexOf(LowerLetters, c)
      [] c \in Range(Digits) -> 47 + IndexOf(Digits, c)
      [] OTHER -> 32

\* a < b in lexicographic (code unit by code unit) order
LexLess(a, b) ==
    CompareWeights([i \in DOMAIN a |-> CodeUnit(a[i])], [i \in DOMAIN b |-> CodeUnit(b[i])]) < 0

OutliersLast(buckets) ==
    \A j \in DOMAIN buckets : buckets[j].composerName = OUTLIERS_GROUP => j = Len(buckets)

\* C2 (as amended): the outliers bucket, if present, is last, and the other
\* buckets stand in ascending order of localeCompare (alphabetic whatever
\* the letter case), whatever the order the identities were first seen in.
C2_OutliersLastThenCollation ==
    pc = "done" =>
        /\ OutliersLast(processedData)
        /\ \A j, k \in DOMAIN processedData :
              (j < k /\ processedData[k].composerName # OUTLIERS_GROUP) =>
                  localeCompare(processedData[j].composerName, processedData[k].composerName) < 0

\* C2 as stated: the outliers bucket last and the others in ascending
\* lexicographic order of their names.
C2_Original ==
    pc = "done" =>
        /\ OutliersLast(processedData)
        /\ \A j, k \in DOMAIN processedData :
              (j < k /\ processedData[k].composerName # OUTLIERS_GROUP) =>
                  LexLess(processedData[j].composerName, processedData[k].composerName)

\* C2 witness: the outliers identity is seen first and ends last, behind
\* two roster buckets that were first seen in descending order.
C2_Witness ==
    /\ pc = "done"
    /\ Len(rawData) = 3
    /\ Len(processedData) = 3
    /\ GroupOf(rawData[1]) = OUTLIERS_GROUP
    /\ processedData[3].composerName = OUTLIERS_GROUP
    /\ GroupOf(rawData[2]) = processedData[2].composerName
    /\ GroupOf(rawData[3]) = processedData[1].composerName

\* the transformed row of input row i: the row of its bucket at the rank
\* the input row has among the rows of its identity
TransformedRowOf(i) ==
    LET j    == CHOOSE b \in DOMAIN processedData :
                    processedData[b].composerName = GroupOf(rawData[i])
        rank == Cardinality({ k \in 1..i : GroupOf(rawData[k]) = GroupOf(rawData[i]) })
    IN  processedData[j].rows[rank]

\* the sample rows whose label contains no roster entry
UnmatchedRows == { row \in SampleRows : Contained(RawComposerText(row)) = {} }

Unmatched(row) == row \in UnmatchedRows

\* C4: a row whose label contains no roster entry is resolved to the
\* outliers group and the pass, which completes, holds it in that bucket.
C4_UnmatchedGoesToOutliers ==
    pc = "done" =>
        /\ appState = "COMPLETED"
        /\ \A i \in DOMAIN rawData :
              Unmatched(rawData[i]) =>
                  /\ GroupOf(rawData[i]) = OUTLIERS_GROUP
                  /\ \E j \in DOMAIN processedData :
                        /\ processedData[j].composerName = OUTLIERS_GROUP
                        /\ processedData[j].rowCount =
                              Cardinality({ k \in DOMAIN rawData : Unmatched(rawData[k]) })
                        /\ \E r \in DOMAIN processedData[j].rows :
                              processedData[j].rows[r] =
                                  FilteredRow(rawData[i], selectedColumns, RawComposerText(rawData[i]))

\* C4 witness: a completed pass over a table with a composer the roster
\* does not know, whose row is in the outliers bucket.
C4_Witness ==
    /\ pc = "done"
    /\ \E i \in DOMAIN rawData :
          /\ rawData[i] = RowStranger
          /\ \E j \in DOMAIN processedData :
                /\ processedData[j].composerName = OUTLIERS_GROUP
                /\ TransformedRowOf(i) \in Range(processedData[j].rows)

\* C6: every row of a roster entry's bucket carries the roster's spelling
\* of the entry in its COMPOSER cell, whatever the raw cell text was.
C6_ComposerCellIsCanonical ==
    pc = "done" =>
        \A i \in DOMAIN rawData :
            ~Unmatched(rawData[i]) =>
                /\ GroupOf(rawData[i]) \in Range(KNOWN_COMPOSERS)
                /\ "COMPOSER" \in DOMAIN TransformedRowOf(i)
                /\ TransformedRowOf(i)["COMPOSER"] = GroupOf(rawData[i])

\* C6 witness: a row whose raw composer text is not the roster spelling
\* ends with the roster spelling in its COMPOSER cell.
C6_Witness ==
    /\ pc = "done"
    /\ \E i \in DOMAIN rawData :
          /\ rawData[i] = RowIon
          /\ TransformedRowOf(i)["COMPOSER"] = KNOWN_COMPOSERS[8]
          /\ CellValue(rawData[i], MANDATORY_COLUMN) # KNOWN_COMPOSERS[8]

\* the last selected column written under the output name of column index k
LastWriter(k) ==
    CHOOSE m \in DOMAIN selectedColumns :
        /\ OutputColumnName(selectedColumns[m]) = OutputColumnName(selectedColumns[k])
        /\ \A n \in DOMAIN selectedColumns :
              OutputColumnName(selectedColumns[n]) = OutputColumnName(selectedColumns[k]) => n <= m

\* C7 (as amended): every selected column has a cell under its mapped
\* output name in every transformed row; the cell holds the resolved clean
\* name under COMPOSER, the empty string under ARTIST, and otherwise the
\* text of the last selected column mapped to that name, the empty string
\* when that cell is missing, undefined or null; the pass completes.
C7_SelectedColumnsMapped ==
    pc = "done" =>
        /\ appState = "COMPLETED"
        /\ \A i \in DOMAIN rawData : \A k \in DOMAIN selectedColumns :
              LET name == OutputColumnName(selectedColumns[k])
                  last == selectedColumns[LastWriter(k)]
                  out  == TransformedRowOf(i)
              IN  /\ name \in DOMAIN out
                  /\ name = "ARTIST" => out[name] = <<>>
                  /\ name = "COMPOSER" =>
                        out[name] = IdentityOf[rawData[i]].cleanName
                  /\ name \notin {"ARTIST", "COMPOSER"} =>
                        /\ Get(rawData[i], last).t \in {"null", "undefined"} => out[name] = <<>>
                        /\ Get(rawData[i], last).t \notin {"null", "undefined"} =>
                              out[name] = String(Get(rawData[i], last))

\* C7 as stated (the COMPOSER column, which holds the clean name, set
\* aside): every selected column's cell is held under its mapped name.
C7_Original ==
    pc = "done" =>
        \A i \in DOMAIN rawData : \A k \in DOMAIN selectedColumns :
            LET name == OutputColumnName(selectedColumns[k])
                cell == Get(rawData[i], selectedColumns[k])
                out  == TransformedRowOf(i)
            IN  name # "COMPOSER" =>
                    /\ name \in DOMAIN out
                    /\ out[name] = IF cell.t \in {"null", "undefined"} THEN <<>> ELSE String(cell)

\* C7 witness: a row with a null cell and a row without the cell of a
\* selected column, each written as the empty string under the mapped
\* name, beside a renamed column that holds its text.
C7_Witness ==
    /\ pc = "done"
    /\ \E i, k \in DOMAIN rawData :
          /\ rawData[i] = RowAndrawes
          /\ "Song Title" \in Range(selectedColumns)
          /\ "TITLE" \notin Range(selectedColumns)
          /\ TransformedRowOf(i)["TITLE"] = <<>>
          /\ TransformedRowOf(i)["NET AMOUNT"] = <<"3">>
          /\ rawData[k] = RowBlank
          /\ TransformedRowOf(k)["TITLE"] = <<>>

----------------------------------------------------------------------------
(* Specification SpecResolve: findActualComposer applied to a raw label    *)
(* and to a re-spelling of it                                              *)

\* most white-space characters put around a label by a re-spelling
MaxPad == 2

Prefixes ==
    { <<>>,
      <<"G","L"," ","-"," ">>,
      <<"I","o","n"," ","P","u","r","i","c","e"," ","&"," ">> }

Suffixes ==
    { <<>>,
      <<" ","(","x","1",")">>,
      <<" ","&"," ","A","l","m","o","s"," ","B","a","l","l","a">> }

\* texts that are no roster entry
StrangerCores ==
    { <<>>,
      <<"J","a","n","e"," ","D","o","e">>,
      <<"P","u","r","i","c","e"," ","I","o","n">> }

Cores == Range(KNOWN_COMPOSERS) \cup StrangerCores

Labels == { p \o c \o s : p \in Prefixes, c \in Cores, s \in Suffixes }

AccentChar(c) ==
    CASE c = "a" -> "U+00E1"
      [] c = "A" -> "U+00C1"
      [] c = "e" -> "U+00E9"
      [] c = "E" -> "U+00C9"
      [] OTHER -> c

\* every a, A, e, E written with an acute accent (precomposed)
Accented(text) == [i \in DOMAIN text |-> AccentChar(text[i])]

\* every space written twice
DoubleSpaced(text) ==
    Flatten([i \in DOMAIN text |-> IF text[i] = " " THEN <<" ", " ">> ELSE <<text[i]>>])

Pad(w, n) == [i \in 1..n |-> w]

\* re-spellings of a label that differ from it in letter case, in accents or
\* in white space only
Respellings(x) ==
    {[kind |-> "case", text |-> toUpperCase(x)],
     [kind |-> "case", text |-> toLowerCase(x)],
     [kind |-> "accent", text |-> Accented(x)],
     [kind |-> "accent", text |-> NFD(Accented(x))],
     [kind |-> "inner white space", text |-> DoubleSpaced(x)]}
    \cup
    {[kind |-> "outer white space", text |-> Pad(w, n) \o x \o Pad(w, n)] :
        w \in WhiteSpace, n \in 1..MaxPad}

InitResolve ==
    /\ AppIdle
    /\ ExportIdle
    /\ rawLabel \in Labels
    /\ variant \in Respellings(rawLabel)
    /\ resolved = NoResult
    /\ pc = "call"

Resolve ==
    /\ pc = "call"
    /\ resolved' = [kind |-> "done",
                    x |-> findActualComposer(rawLabel),
                    v |-> findActualComposer(variant.text)]
    /\ pc' = "done"
    /\ UNCHANGED <<appVars, rawLabel, variant, exportVars>>

NextResolve == Resolve

SpecResolve == InitResolve /\ [][NextResolve]_vars

\* C3: a label that contains two or more roster entries resolves to the one
\* that comes first in roster order, wherever the entries stand in the label.
C3_FirstRosterEntryWins ==
    (pc = "done" /\ Cardinality(Contained(rawLabel)) >= 2) =>
        /\ resolved.x.groupName = KNOWN_COMPOSERS[Min(Contained(rawLabel))]
        /\ resolved.x.cleanName = KNOWN_COMPOSERS[Min(Contained(rawLabel))]

\* C3 witness: a resolved label with two roster entries in which the entry
\* that is first in the roster stands after the other one in the label.
C3_Witness ==
    /\ pc = "done"
    /\ Cardinality(Contained(rawLabel)) >= 2
    /\ \E i, j \in Contained(rawLabel) :
          /\ i < j
          /\ LabelPosition(rawLabel, i) > LabelPosition(rawLabel, j)
          /\ resolved.x.groupName = KNOWN_COMPOSERS[i]

\* the re-spellings normalizeForComparison is built to absorb
AbsorbedKinds == {"case", "accent", "outer white space"}

\* C5 (as amended): a label that embeds a roster entry and a re-spelling of
\* it that differs only in letter case, in accents, or in white space at the
\* two ends of the label resolve to the same identity.
C5_RespellingInvariant ==
    (pc = "done" /\ Contained(rawLabel) # {} /\ variant.kind \in AbsorbedKinds) =>
        resolved.v = resolved.x

\* C5 as stated: every re-spelling in case, accents or white space, the
\* white space inside the label included, resolves to the same identity.
C5_Original ==
    (pc = "done" /\ Contained(rawLabel) # {}) =>
        resolved.v.groupName = resolved.x.groupName

\* C5 witness: a roster entry between a prefix and a suffix, re-spelt with
\* accents, resolved to the entry under both spellings.
C5_Witness ==
    /\ pc = "done"
    /\ variant.kind = "accent"
    /\ variant.text # rawLabel
    /\ \E p \in Prefixes \ {<<>>}, s \in Suffixes \ {<<>>}, i \in DOMAIN KNOWN_COMPOSERS :
          /\ rawLabel = p \o KNOWN_COMPOSERS[i] \o s
          /\ resolved.x.groupName = KNOWN_COMPOSERS[i]
          /\ resolved.v.groupName = KNOWN_COMPOSERS[i]

----------------------------------------------------------------------------
(* Specification Spec: the App component of App.tsx with ColumnSelector    *)

\* a row of a statement whose Amount header is padded with spaces
RowPadded ==
    [c \in {"Song Composer(s)", " Amount ", "Territory"} |->
        CASE c = "Song Composer(s)" -> StringCell(<<"F","o","t","i","s"," ","M","y","l","o","n","a","s">>)
          [] c = " Amount "   -> StringCell(<<"1","2",".","5">>)
          [] c = "Territory"  -> StringCell(<<"G","R">>)]

\* the files a user may drop: what parseFileToRawData yields for each
FileGood ==
    [name    |-> "statement.csv",
     parsed  |-> TRUE,
     headers |-> <<"Song Title", "Song Composer(s)", "TITLE", "Amount", "ARTIST">>,
     data    |-> <<RowIon, RowStranger, RowAlmos>>]

FilePadded ==
    [name    |-> "padded.xlsx",
     parsed  |-> TRUE,
     headers |-> <<"Song Composer(s)", " Amount ", "Territory">>,
     data    |-> <<RowPadded>>]

FileNoComposer ==
    [name    |-> "no-composer.csv",
     parsed  |-> TRUE,
     headers |-> <<"Song Title", "Amount">>,
     data    |-> <<RowMissing>>]

FileBroken ==
    [name    |-> "empty.xlsx",
     parsed  |-> FALSE,
     headers |-> <<>>,
     data    |-> <<>>]

Files == {FileGood, FilePadded, FileNoComposer, FileBroken}

\* col.trim() on a column name of the files above
TrimName(col) == IF col = " Amount " THEN "Amount" ELSE col

\* a header check that lets every file pass
HeaderCheckOmitted(headers) == TRUE

\* headers.includes(MANDATORY_COLUMN)
HeadersIncludeMandatory(headers) == MANDATORY_COLUMN \in Range(headers)

\* ESSENTIAL_COLUMNS.some(essential => col.trim() === essential.trim())
IsEssential(col) ==
    \E e \in DOMAIN ESSENTIAL_COLUMNS : TrimName(col) = TrimName(ESSENTIAL_COLUMNS[e])

\* a default selection that leaves the composer column out
EssentialColumnsButComposer(headers) ==
    SelectSeq(headers, LAMBDA col : IsEssential(col) /\ col # MANDATORY_COLUMN)

\* essentialColumnsInFile
EssentialColumnsInFile(headers) == SelectSeq(headers, IsEssential)

\* the new selectedColumns of handleToggleColumn(col)
handleToggleColumn(prev, col) ==
    IF col = MANDATORY_COLUMN THEN prev
    ELSE IF col \in Range(prev) THEN SelectSeq(prev, LAMBDA c : c # col)
    ELSE Append(prev, col)

\* isLocked of ColumnSelector
IsLocked(col) == col = MANDATORY_COLUMN

Init ==
    /\ AppIdle
    /\ ResolveIdle
    /\ ExportIdle
    /\ pc = "app"

\* handleFileSelect up to its await: the drop zone is shown in IDLE with no file
HandleFileSelect(selectedFile) ==
    /\ appState = "IDLE"
    /\ file = NoFile
    /\ pending = "none"
    /\ file' = selectedFile
    /\ appState' = "PROCESSING"
    /\ pending' = "parse"
    /\ UNCHANGED <<rawData, availableColumns, selectedColumns, processedData, stats,
                   lastCall, lastAlert, resolveVars, exportVars, pc>>

\* a catch block that returns to IDLE and keeps the selected file
ParseRejectedKeepingFile ==
    /\ pending = "parse"
    /\ ~file.parsed
    /\ lastAlert' = "Failed to read the file. Please check format."
    /\ appState' = "IDLE"
    /\ pending' = "none"
    /\ UNCHANGED <<file, rawData, availableColumns, selectedColumns, processedData, stats,
                   lastCall, resolveVars, exportVars, pc>>

\* parseFileToRawData rejected: the catch block of handleFileSelect
ParseRejected ==
    /\ pending = "parse"
    /\ ~file.parsed
    /\ lastAlert' = "Failed to read the file. Please check format."
    /\ appState' = "IDLE"
    /\ file' = NoFile
    /\ pending' = "none"
    /\ UNCHANGED <<rawData, availableColumns, selectedColumns, processedData, stats,
                   lastCall, resolveVars, exportVars, pc>>

\* parseFileToRawData resolved, the mandatory column is not among the headers
MissingMandatoryColumn ==
    /\ pending = "parse"
    /\ file.parsed
    /\ ~HeadersIncludeMandatory(file.headers)
    /\ lastAlert' = "Error: The file is missing the required column"
    /\ appState' = "IDLE"
    /\ file' = NoFile
    /\ pending' = "none"
    /\ UNCHANGED <<rawData, availableColumns, selectedColumns, processedData, stats,
                   lastCall, resolveVars, exportVars, pc>>

\* parseFileToRawData resolved and the headers hold the mandatory column
EnterColumnSelection ==
    /\ pending = "parse"
    /\ file.parsed
    /\ HeadersIncludeMandatory(file.headers)
    /\ availableColumns' = file.headers
    /\ rawData' = file.data
    /\ selectedColumns' = EssentialColumnsInFile(file.headers)
    /\ appState' = "COLUMN_SELECTION"
    /\ pending' = "none"
    /\ UNCHANGED <<file, processedData, stats, lastCall, lastAlert, resolveVars, exportVars, pc>>

\* a click on a column of ColumnSelector
ClickColumn(col) ==
    /\ appState = "COLUMN_SELECTION"
    /\ col \in Range(availableColumns)
    /\ ~IsLocked(col)
    /\ selectedColumns' = handleToggleColumn(selectedColumns, col)
    /\ UNCHANGED <<appState, file, rawData, availableColumns, processedData, stats,
                   pending, lastCall, lastAlert, resolveVars, exportVars, pc>>

\* handleProcess up to its await: processRawData is invoked with the state's
\* rawData and selectedColumns
HandleProcess ==
    /\ appState = "COLUMN_SELECTION"
    /\ appState' = "PROCESSING"
    /\ lastCall' = [kind |-> "call", file |-> file,
                    rawData |-> rawData, columnsToKeep |-> selectedColumns]
    /\ pending' = "process"
    /\ UNCHANGED <<file, rawData, availableColumns, selectedColumns, processedData, stats,
                   lastAlert, resolveVars, exportVars, pc>>

\* Promise.all resolved: the rest of handleProcess's try block
ProcessResolved ==
    /\ pending = "process"
    /\ LET result == processRawData(lastCall.rawData, lastCall.columnsToKeep)
       IN  /\ processedData' = result.data
           /\ stats' = result.stats
    /\ appState' = "COMPLETED"
    /\ pending' = "none"
    /\ UNCHANGED <<file, rawData, availableColumns, selectedColumns, lastCall, lastAlert,
                   resolveVars, exportVars, pc>>

\* a catch block that alerts and leaves the loading screen up
ProcessRejectedStayingInProcessing ==
    /\ pending = "process"
    /\ lastAlert' = "Failed to process data."
    /\ pending' = "none"
    /\ UNCHANGED <<appState, file, rawData, availableColumns, selectedColumns, processedData,
                   stats, lastCall, resolveVars, exportVars, pc>>

\* Promise.all rejected: the catch block of handleProcess
ProcessRejected ==
    /\ pending = "process"
    /\ lastAlert' = "Failed to process data."
    /\ appState' = "IDLE"
    /\ pending' = "none"
    /\ UNCHANGED <<file, rawData, availableColumns, selectedColumns, processedData, stats,
                   lastCall, resolveVars, exportVars, pc>>

\* handleReset: the Start Over button of the results, the clear button of a
\* selected file in IDLE
HandleReset ==
    /\ \/ appState = "COMPLETED"
       \/ appState = "IDLE" /\ file # NoFile
    /\ file' = NoFile
    /\ appState' = "IDLE"
    /\ rawData' = <<>>
    /\ availableColumns' = <<>>
    /\ selectedColumns' = <<>>
    /\ processedData' = <<>>
    /\ stats' = NoStats
    /\ UNCHANGED <<pending, lastCall, lastAlert, resolveVars, exportVars, pc>>

Next ==
    \/ \E selectedFile \in Files : HandleFileSelect(selectedFile)
    \/ ParseRejected
    \/ MissingMandatoryColumn
    \/ EnterColumnSelection
    \/ \E col \in Range(availableColumns) : ClickColumn(col)
    \/ HandleProcess
    \/ ProcessResolved
    \/ ProcessRejected
    \/ HandleReset

Spec == Init /\ [][Next]_vars

\* the states from the entry into COLUMN_SELECTION until the reset
Selecting ==
    \/ appState \in {"COLUMN_SELECTION", "COMPLETED"}
    \/ appState = "PROCESSING" /\ pending = "process"

\* C8: from the entry into COLUMN_SELECTION until the reset the mandatory
\* column is selected, whatever columns were toggled, and it is among the
\* columns of every processRawData invocation.
C8_MandatoryColumnSelected ==
    /\ Selecting => MANDATORY_COLUMN \in Range(selectedColumns)
    /\ lastCall # NoCall => MANDATORY_COLUMN \in Range(lastCall.columnsToKeep)

\* C8 witness: processRawData invoked after every other column was toggled
\* off, with the mandatory column as the only column left.
C8_Witness ==
    /\ lastCall # NoCall
    /\ lastCall.file = FileGood
    /\ lastCall.columnsToKeep = <<MANDATORY_COLUMN>>
    /\ appState = "COMPLETED"

\* C9: a file whose headers lack the mandatory column is the selected file
\* only while its parse is awaited: the step that finds the column missing
\* returns to IDLE with the file cleared, the app never enters
\* COLUMN_SELECTION with it and processRawData is never invoked for it.
C9_NoPassWithoutMandatoryColumn ==
    [][ /\ (file' # NoFile /\ ~(MANDATORY_COLUMN \in Range(file'.headers))) =>
              (appState' = "PROCESSING" /\ pending' = "parse")
        /\ (pending = "parse" /\ file.parsed /\ ~(MANDATORY_COLUMN \in Range(file.headers))) =>
              (appState' = "IDLE" /\ file' = NoFile /\ lastCall' = lastCall)
        /\ lastCall' # NoCall => MANDATORY_COLUMN \in Range(lastCall'.file.headers) ]_vars

\* C9 witness: a file without the mandatory column was rejected after an
\* earlier file was processed: the app is in IDLE with no file.
C9_Witness ==
    /\ lastAlert = "Error: The file is missing the required column"
    /\ appState = "IDLE"
    /\ file = NoFile
    /\ lastCall # NoCall

----------------------------------------------------------------------------
(* The percentage export of a composer card                                *)

\* row[key] || ""
OrEmpty(row, key) == IF Truthy(Get(row, key)) THEN Get(row, key) ELSE StringCell(<<>>)

\* parseFloat(String(row["NET AMOUNT"] || "0")) without the || 0 behind it
GrossAmountWithoutFallback(row) ==
    LET cell == IF Truthy(Get(row, "NET AMOUNT")) THEN Get(row, "NET AMOUNT")
                ELSE StringCell(<<"0">>)
    IN  parseFloat(String(cell))

\* parseFloat(String(row["NET AMOUNT"] || "0")) || 0
GrossAmount(row) ==
    LET cell == IF Truthy(Get(row, "NET AMOUNT")) THEN Get(row, "NET AMOUNT")
                ELSE StringCell(<<"0">>)
    IN  OrZero(parseFloat(String(cell)))

\* x.toString(): the shortest decimal text that reads back as x, so the
\* texts of two numbers are equal exactly when the numbers are; the cell
\* keeps the number in place of its digits
NumberToString(x) == [t |-> "string", digitsOf |-> x]

Hundred == FromNat(100)

\* the object returned for a row by the callback of rows.map
AdminRow(row, grossAmount, adminAmount, netAmount) ==
    [c \in {"Date From (MM/YYYY)", "Date To (MM/YYYY)", "Song Title", "Song Composer(s)",
            "Territory", "Exploitation Source Name", "Usage Count",
            "Gross Amount", "Administration Amount", "Net Amount"} |->
        CASE c = "Date From (MM/YYYY)"      -> OrEmpty(row, "Date From (MM/YYYY)")
          [] c = "Date To (MM/YYYY)"        -> OrEmpty(row, "Date To (MM/YYYY)")
          [] c = "Song Title"               -> OrEmpty(row, "TITLE")
          [] c = "Song Composer(s)"         -> OrEmpty(row, "COMPOSER")
          [] c = "Territory"                -> OrEmpty(row, "TERRITORY")
          [] c = "Exploitation Source Name" -> OrEmpty(row, "SOURCE")
          [] c = "Usage Count"              -> OrEmpty(row, "COUNT")
          [] c = "Gross Amount"             -> NumberToString(grossAmount)
          [] c = "Administration Amount"    -> NumberToString(adminAmount)
          [] c = "Net Amount"               -> NumberToString(netAmount)]

\* the callback of rows.map with the administration amount taken as
\* grossAmount * adminPercent
TransformedRowWithoutHundredth(row, percentage) ==
    Let(GrossAmount(row), LAMBDA grossAmount :
        Let(NumberMul(grossAmount, percentage), LAMBDA adminAmount :
            AdminRow(row, grossAmount, adminAmount, NumberSub(grossAmount, adminAmount))))

\* the callback of rows.map in generateCsvContentWithAdmin
TransformedRowWithAdmin(row, percentage) ==
    Let(GrossAmount(row), LAMBDA grossAmount :
        Let(NumberMul(grossAmount, NumberDiv(percentage, Hundred)), LAMBDA adminAmount :
            AdminRow(row, grossAmount, adminAmount, NumberSub(grossAmount, adminAmount))))

\* const outputOrder of generateCsvContentWithAdmin
AdminOutputOrder ==
    <<"Date From (MM/YYYY)", "Date To (MM/YYYY)", "Song Title", "Song Composer(s)",
      "Territory", "Exploitation Source Name", "Usage Count",
      "Gross Amount", "Administration Amount", "Net Amount">>

\* Papa.unparse(rows, {delimiter: "\t", header: true, columns}): the header
\* line, then one line a row with the fields of the columns in their order;
\* a column absent from a row gives an empty field.  The lines are kept as
\* sequences of fields.  An empty list of rows is written as the empty
\* text, without a header line.
Unparse(rows, columns) ==
    IF rows = <<>> THEN [header |-> <<>>, lines |-> <<>>]
    ELSE [header |-> columns,
          lines  |-> [i \in DOMAIN rows |->
                        [j \in DOMAIN columns |->
                           IF columns[j] \in DOMAIN rows[i] THEN rows[i][columns[j]]
                           ELSE StringCell(<<>>)]]]

generateCsvContentWithAdmin(rows, columns, percentage) ==
    Unparse([i \in DOMAIN rows |-> TransformedRowWithAdmin(rows[i], percentage)],
            AdminOutputOrder)

----------------------------------------------------------------------------
(* SpecExport: a composer card, its percentage modal and its download      *)

MaxExportRows == 2

TextHundred == <<"1","0","0">>

TextCent == <<"0",".","0","1">>

\* a transformed row of a bucket whose NET AMOUNT cell is amount
ExportRow(amount) ==
    [c \in {"TITLE", "COMPOSER", "NET AMOUNT", "ARTIST"} |->
        CASE c = "TITLE"      -> StringCell(TextHit)
          [] c = "COMPOSER"   -> StringCell(KNOWN_COMPOSERS[1])
          [] c = "NET AMOUNT" -> amount
          [] c = "ARTIST"     -> StringCell(<<>>)]

\* a transformed row of a pass whose selection lacks the amount column
ExportRowWithoutAmount ==
    [c \in {"COMPOSER", "ARTIST"} |->
        IF c = "COMPOSER" THEN StringCell(KNOWN_COMPOSERS[1]) ELSE StringCell(<<>>)]

ExportRowKinds ==
    {ExportRow(StringCell(TextHundred)), ExportRow(StringCell(TextCent)),
     ExportRow(NumberCell(3)), ExportRow(StringCell(<<"a","b","c">>)),
     ExportRow(StringCell(<<>>)), ExportRowWithoutAmount}

ExportBuckets ==
    UNION {[1..n -> ExportRowKinds] : n \in 1..MaxExportRows}

\* what the percentage input may hold
PercentTexts ==
    {DefaultAdminPercent, <<"1","0">>, <<"1","2",".","5">>, <<"-","5">>, <<"1","5","0">>, <<>>,
     <<"a","b","c">>}

InitExport ==
    /\ AppIdle
    /\ ResolveIdle
    /\ exportRows \in ExportBuckets
    /\ adminPercent = DefaultAdminPercent
    /\ showModal = FALSE
    /\ exported = NoResult
    /\ dualPercent = NoCall
    /\ pc = "card"

\* onClick={() => setShowModal(true)}
OpenModal ==
    /\ pc = "card"
    /\ ~showModal
    /\ showModal' = TRUE
    /\ UNCHANGED <<appVars, resolveVars, exportRows, adminPercent, exported, dualPercent, pc>>

\* onChange={(e) => setAdminPercent(e.target.value)}
SetAdminPercent(value) ==
    /\ pc = "card"
    /\ showModal
    /\ adminPercent' = value
    /\ UNCHANGED <<appVars, resolveVars, exportRows, showModal, exported, dualPercent, pc>>

\* the Cancel button and the close button: setShowModal(false)
CloseModal ==
    /\ pc = "card"
    /\ showModal
    /\ showModal' = FALSE
    /\ UNCHANGED <<appVars, resolveVars, exportRows, adminPercent, exported, dualPercent, pc>>

\* the percentage with values outside 0..100 replaced by the nearer limit
ClampedPercentage(text) ==
    Let(OrZero(parseFloat(text)), LAMBDA x :
        IF x.neg THEN Zero ELSE IF ExactLeq(Hundred, x) THEN Hundred ELSE x)

\* const percentage = parseFloat(adminPercent) || 0
DownloadPercentage(text) == OrZero(parseFloat(text))

\* handleDownload of the composer card
HandleDownload ==
    /\ pc = "card"
    /\ showModal
    /\ exported' = [kind |-> "csv",
                    content |-> generateCsvContentWithAdmin(exportRows, selectedColumns,
                                    DownloadPercentage(adminPercent))]
    /\ showModal' = FALSE
    /\ pc' = "done"
    /\ UNCHANGED <<appVars, resolveVars, exportRows, adminPercent, dualPercent>>

NextExport ==
    \/ OpenModal
    \/ \E value \in PercentTexts : SetAdminPercent(value)
    \/ CloseModal
    \/ HandleDownload

SpecExport == InitExport /\ [][NextExport]_vars

\* the number a NET AMOUNT cell denotes, 0 when it denotes none
BaseAmount(row) ==
    LET cell == Get(row, "NET AMOUNT")
    IN  CASE cell.t = "number" -> FromNat(cell.n)
          [] cell.t = "string" -> OrZero(parseFloat(cell.v))
          [] OTHER -> Zero

\* the percentage the input holds, 0 when it holds none
Percentage == OrZero(parseFloat(adminPercent))

\* the number written in column name of line i of the export
Written(i, name) == exported.content.lines[i][IndexOf(AdminOutputOrder, name)].digitsOf

\* |x - y| <= 2^k * |bound|, exactly
Within(x, y, k, bound) ==
    ExactLeq(ExactAbs(ExactSub(x, y)), ExactShift(ExactAbs(bound), k))

\* C10: in the single-cut export every row with base amount b and admin
\* percentage p is written with Gross Amount = b, with an Administration
\* Amount that is b * p / 100 up to the two roundings of its binary64
\* computation (relative error at most 2^-51) and with a Net Amount that is
\* Gross Amount - Administration Amount up to one rounding (relative error
\* at most 2^-53), so that Gross Amount = Administration Amount + Net Amount
\* up to that rounding; b = 100 and p = 15 give exactly 15 and 85.
C10_SingleCutUpToRounding ==
    pc = "done" =>
        /\ Len(exported.content.lines) = Len(exportRows)
        /\ \A i \in DOMAIN exportRows :
              LET b     == BaseAmount(exportRows[i])
                  gross == Written(i, "Gross Amount")
                  admin == Written(i, "Administration Amount")
                  net   == Written(i, "Net Amount")
              IN  /\ gross = b
                  /\ Within(ExactMul(Hundred, admin), ExactMul(b, Percentage),
                            2 - Precision, ExactMul(b, Percentage))
                  /\ Within(ExactSub(gross, admin), net,
                            -Precision, ExactSub(gross, admin))
                  /\ (b = Hundred /\ Percentage = FromNat(15)) =>
                         (admin = FromNat(15) /\ net = FromNat(85))

\* C10 as stated, the arithmetic read as JavaScript evaluates it: the
\* Administration Amount is b * p / 100, the Net Amount is b minus it, and
\* the Gross Amount is the sum of the two.
C10_Original ==
    pc = "done" =>
        \A i \in DOMAIN exportRows :
            LET b     == BaseAmount(exportRows[i])
                gross == Written(i, "Gross Amount")
                admin == Written(i, "Administration Amount")
                net   == Written(i, "Net Amount")
            IN  /\ gross = b
                /\ admin = NumberDiv(NumberMul(b, Percentage), Hundred)
                /\ net = NumberSub(b, admin)
                /\ gross = NumberAdd(admin, net)

\* C10 witness: a download at 15 percent of a bucket with a row of base
\* amount 100, written with 100, 15 and 85, next to a row of base amount 3
\* whose amounts needed rounding.
C10_Witness ==
    /\ pc = "done"
    /\ Percentage = FromNat(15)
    /\ \E i, j \in DOMAIN exportRows :
          /\ BaseAmount(exportRows[i]) = Hundred
          /\ Written(i, "Gross Amount") = Hundred
          /\ Written(i, "Administration Amount") = FromNat(15)
          /\ Written(i, "Net Amount") = FromNat(85)
          /\ BaseAmount(exportRows[j]) = FromNat(3)
          /\ ~ExactEq(ExactMul(Hundred, Written(j, "Administration Amount")),
                      ExactMul(FromNat(3), FromNat(15)))

----------------------------------------------------------------------------
(* The dual percentage export                                              *)

\* the object returned for a row by the callback of rows.map
DualRow(row, afterAdmin, platformAmount, finalNet) ==
    [c \in {"Song Title", "ISWC", "Composer", "Date", "Territory", "Source",
            "Usage Count", "Gross", "Admin %", "Net"} |->
        CASE c = "Song Title"  -> OrEmpty(row, "TITLE")
          [] c = "ISWC"        -> OrEmpty(row, "ISWC")
          [] c = "Composer"    -> OrEmpty(row, "COMPOSER")
          [] c = "Date"        -> OrEmpty(row, "Date From (MM/YYYY)")
          [] c = "Territory"   -> OrEmpty(row, "TERRITORY")
          [] c = "Source"      -> OrEmpty(row, "SOURCE")
          [] c = "Usage Count" -> OrEmpty(row, "COUNT")
          [] c = "Gross"       -> NumberToString(afterAdmin)
          [] c = "Admin %"     -> NumberToString(platformAmount)
          [] c = "Net"         -> NumberToString(finalNet)]

\* the callback of rows.map with the platform amount taken from
\* originalAmount
TransformedRowWithBothCutsFromBase(row, percentage, platformPercentage) ==
    Let(GrossAmount(row), LAMBDA originalAmount :
        Let(NumberSub(originalAmount,
                      NumberMul(originalAmount, NumberDiv(percentage, Hundred))),
            LAMBDA afterAdmin :
                Let(NumberMul(originalAmount, NumberDiv(platformPercentage, Hundred)),
                    LAMBDA platformAmount :
                        DualRow(row, afterAdmin, platformAmount,
                                NumberSub(afterAdmin, platformAmount)))))

\* the callback of rows.map in generateCsvContentWithDualPercentage
TransformedRowWithDualPercentage(row, percentage, platformPercentage) ==
    Let(GrossAmount(row), LAMBDA originalAmount :
        Let(NumberSub(originalAmount,
                      NumberMul(originalAmount, NumberDiv(percentage, Hundred))),
            LAMBDA afterAdmin :
                Let(NumberMul(afterAdmin, NumberDiv(platformPercentage, Hundred)),
                    LAMBDA platformAmount :
                        DualRow(row, afterAdmin, platformAmount,
                                NumberSub(afterAdmin, platformAmount)))))

\* const outputOrder of generateCsvContentWithDualPercentage
DualOutputOrder ==
    <<"Song Title", "ISWC", "Composer", "Date", "Territory", "Source",
      "Usage Count", "Gross", "Admin %", "Net">>

generateCsvContentWithDualPercentage(rows, columns, percentage, platformPercentage) ==
    Unparse([i \in DOMAIN rows |->
                TransformedRowWithDualPercentage(rows[i], percentage, platformPercentage)],
            DualOutputOrder)

----------------------------------------------------------------------------
(* SpecDual: one call of generateCsvContentWithDualPercentage              *)

MaxDualRows == 2

DualRowKinds ==
    {ExportRow(StringCell(TextHundred)), ExportRow(StringCell(TextCent)),
     ExportRow(NumberCell(3)), ExportRow(StringCell(<<"a","b","c">>)),
     ExportRowWithoutAmount}

DualBuckets == UNION {[1..n -> DualRowKinds] : n \in 1..MaxDualRows}

\* the percentages a caller may pass: 15, 10 and 0
DualPercents == {FromNat(15), FromNat(10), Zero}

InitDual ==
    /\ AppIdle
    /\ ResolveIdle
    /\ exportRows \in DualBuckets
    /\ adminPercent = DefaultAdminPercent
    /\ showModal = FALSE
    /\ exported = NoResult
    /\ dualPercent \in [admin : DualPercents, platform : DualPercents]
    /\ pc = "call"

\* generateCsvContentWithDualPercentage(rows, columns, adminPercent,
\* platformPercent) returns
ExportDual ==
    /\ pc = "call"
    /\ dualPercent # NoCall
    /\ exported' = [kind |-> "csv",
                    content |-> generateCsvContentWithDualPercentage(
                                    exportRows, selectedColumns,
                                    dualPercent.admin, dualPercent.platform)]
    /\ pc' = "done"
    /\ UNCHANGED <<appVars, resolveVars, exportRows, adminPercent, showModal, dualPercent>>

NextDual == ExportDual

SpecDual == InitDual /\ [][NextDual]_vars

\* the number written in column name of line i of the dual export
WrittenDual(i, name) == exported.content.lines[i][IndexOf(DualOutputOrder, name)].digitsOf

\* x / 100, rounded
Percent(x) == NumberDiv(x, Hundred)

----------------------------------------------------------------------------
(* The percentage of the single-cut export                                 *)

\* x < y
ExactLess(x, y) == ~ExactLeq(y, x)

\* a text without a digit: parseFloat finds no number in it
NoDigit(text) == \A k \in DOMAIN text : text[k] \notin Range(Digits)

\* |x| >= 2^(1 - Precision) * |y|: x is not lost when rounded next to y
Visible(x, y) == ExactLeq(ExactShift(ExactAbs(y), 1 - Precision), ExactAbs(x))

----------------------------------------------------------------------------
(* SpecFilename: the filename of a bucket, computed call after call        *)

MaxCalls == 3

TextJaneDoe == <<"J","a","n","e"," ","D","o","e">>

\* identity names: the roster, the outliers group and a name outside both
FilenameNames == Range(KNOWN_COMPOSERS) \cup {OUTLIERS_GROUP, TextJaneDoe}

NoCalls == [kind |-> "log", calls |-> <<>>]

InitFilename ==
    /\ AppIdle
    /\ ExportIdle
    /\ rawLabel \in FilenameNames
    /\ variant \in {[kind |-> "other name", text |-> TextJaneDoe],
                    [kind |-> "case", text |-> toUpperCase(rawLabel)]}
    /\ resolved = NoCalls
    /\ pc = "naming"

\* the bucket made of a groupMap entry with key name: its filename
NameBucket(name) ==
    /\ pc = "naming"
    /\ Len(resolved.calls) < MaxCalls
    /\ resolved' = [kind  |-> "log",
                    calls |-> Append(resolved.calls,
                                 [arg      |-> name,
                                  filename |-> ToBuckets(<<[key  |-> name,
                                                           rows |-> <<EmptyObject>>]>>)[1].filename])]
    /\ UNCHANGED <<appVars, exportVars, rawLabel, variant, pc>>

NextFilename ==
    \/ NameBucket(rawLabel)
    \/ NameBucket(variant.text)

SpecFilename == InitFilename /\ [][NextFilename]_vars

TextJaneDoeFile ==
    <<"j","a","n","e","d","o","e","_","r","o","y","a","l","t","i","e","s",".","c","s","v">>

UpperCaseCharacters == Range(UpperLetters) \cup {"U+00C1", "U+00C9"}

\* C13: every filename computed for a name is the name in lower case
\* without its spaces followed by "_royalties.csv" ("Jane Doe" gives
\* "janedoe_royalties.csv"), and two calls with equal names give equal
\* filenames, whatever calls were made before or between them.
C13_FilenameIsFunctionOfName ==
    resolved.kind = "log" =>
        /\ \A k \in DOMAIN resolved.calls :
              LET name == resolved.calls[k].arg
                  f    == resolved.calls[k].filename
                  stem == SubSeq(f, 1, Len(f) - 14)
              IN  /\ Len(f) >= 14
                  /\ SubSeq(f, Len(f) - 13, Len(f))
                        = <<"_","r","o","y","a","l","t","i","e","s",".","c","s","v">>
                  /\ " " \notin Range(stem)
                  /\ Range(stem) \cap UpperCaseCharacters = {}
                  /\ toUpperCase(stem) = toUpperCase(SelectSeq(name, LAMBDA c : c # " "))
                  /\ name = TextJaneDoe => f = TextJaneDoeFile
        /\ \A k, l \in DOMAIN resolved.calls :
              resolved.calls[k].arg = resolved.calls[l].arg =>
                  resolved.calls[k].filename = resolved.calls[l].filename

\* C13 witness: "Jane Doe" was named twice with a call for another name,
\* one with two spaces, in between, and got "janedoe_royalties.csv" twice.
C13_Witness ==
    /\ resolved.kind = "log"
    /\ Len(resolved.calls) = 3
    /\ resolved.calls[1].arg = TextJaneDoe
    /\ resolved.calls[1].filename = TextJaneDoeFile
    /\ resolved.calls[2].arg # TextJaneDoe
    /\ Cardinality({i \in DOMAIN resolved.calls[2].arg : resolved.calls[2].arg[i] = " "}) >= 2
    /\ resolved.calls[3].arg = TextJaneDoe
    /\ resolved.calls[3].filename = TextJaneDoeFile


----------------------------------------------------------------------------
(* processor.ts: generateCsvContent                                        *)

\* an output order that follows the caller's selection
SelectionOrder(columns) == [j \in DOMAIN columns |-> OutputColumnName(columns[j])]

\* outputOrder of generateCsvContent
OutputOrder ==
    <<"Date From (MM/YYYY)", "Date To (MM/YYYY)", "TITLE", "COMPOSER",
      "TERRITORY", "SOURCE", "COUNT", "NET AMOUNT">>

\* the cells of a transformed row as Papa.unparse reads them
AsCells(row) == [k \in DOMAIN row |-> StringCell(row[k])]

\* generateCsvContent written with the columns in the caller's order
generateCsvContentInSelectionOrder(rows, columns) ==
    Unparse([i \in DOMAIN rows |-> AsCells(rows[i])], SelectionOrder(columns))

generateCsvContent(rows, columns) ==
    Unparse([i \in DOMAIN rows |-> AsCells(rows[i])], OutputOrder)

----------------------------------------------------------------------------
(* SpecSerialize: one table grouped and serialized under two orders of     *)
(* one set of selected columns                                             *)

MaxSerializeRows == 2

SerializeRows == {RowAlmos, RowIon, RowAndrawes, RowStranger}

SerializeTables == UNION { [1..n -> SerializeRows] : n \in 0..MaxSerializeRows }

\* sets of columns the selection screen can hold for the headers
\* Song Title, Song Composer(s), TITLE, Amount, ARTIST
ColumnSets ==
    { {"Song Title", "Song Composer(s)", "Amount"},
      {"Song Title", "Song Composer(s)", "TITLE"},
      {"Song Composer(s)", "Amount", "ARTIST"} }

\* the orders a set of columns can be selected in
Orders(S) ==
    { f \in [1..Cardinality(S) -> S] : \A i, j \in DOMAIN f : i # j => f[i] # f[j] }

\* the text of every bucket of a pass over rows with the columns in order
SerializedBuckets(rows, columns) ==
    LET data == processRawData(rows, columns).data
    IN  [j \in DOMAIN data |->
            [name |-> data[j].composerName,
             text |-> generateCsvContent(data[j].rows, columns)]]

InitSerialize ==
    /\ appState = "PROCESSING"
    /\ file = NoFile
    /\ rawData \in SerializeTables
    /\ availableColumns = <<>>
    /\ \E S \in ColumnSets :
          /\ selectedColumns \in Orders(S)
          /\ variant \in [kind : {"order"}, columns : Orders(S)]
    /\ processedData = <<>>
    /\ stats = NoStats
    /\ pending = "process"
    /\ lastCall = NoCall
    /\ lastAlert = "none"
    /\ rawLabel = <<>>
    /\ resolved = NoResult
    /\ ExportIdle
    /\ pc = "call"

\* processRawData, then generateCsvContent on every bucket, once with the
\* columns as selected and once with them in the other order
Serialize ==
    /\ pc = "call"
    /\ LET result == processRawData(rawData, selectedColumns)
       IN  /\ processedData' = result.data
           /\ stats' = result.stats
    /\ exported' = [kind    |-> "texts",
                    content |-> [first  |-> SerializedBuckets(rawData, selectedColumns),
                                 second |-> SerializedBuckets(rawData, variant.columns)]]
    /\ appState' = "COMPLETED"
    /\ pending' = "none"
    /\ pc' = "done"
    /\ UNCHANGED <<file, rawData, availableColumns, selectedColumns, lastCall, lastAlert,
                   resolveVars, exportRows, adminPercent, showModal, dualPercent>>

NextSerialize == Serialize

SpecSerialize == InitSerialize /\ [][NextSerialize]_vars

\* C14: the text of every bucket is the same for any two orders of one set
\* of selected columns.
C14_Original ==
    pc = "done" => exported.content.first = exported.content.second


\* the text written for bucket j of the pass
TextOf(j) == exported.content.first[j].text

\* C15: the text of every bucket starts with the header Date From
\* (MM/YYYY), Date To (MM/YYYY), TITLE, COMPOSER, TERRITORY, SOURCE, COUNT,
\* NET AMOUNT, followed by one line per row of the bucket; a line has
\* exactly the fields of the header, in its order: the row's cell of that
\* name, or the empty field when the row has none, so that a cell under
\* any other name is not written.
C15_FixedHeaderAndColumns ==
    pc = "done" =>
        \A j \in DOMAIN processedData :
            LET rows == processedData[j].rows
                text == TextOf(j)
            IN  /\ text.header = <<"Date From (MM/YYYY)", "Date To (MM/YYYY)", "TITLE",
                                   "COMPOSER", "TERRITORY", "SOURCE", "COUNT", "NET AMOUNT">>
                /\ DOMAIN text.lines = DOMAIN rows
                /\ \A i \in DOMAIN rows :
                      /\ Len(text.lines[i]) = 8
                      /\ \A k \in 1..8 :
                            LET name == text.header[k]
                            IN  /\ name \in DOMAIN rows[i] =>
                                      text.lines[i][k] = StringCell(rows[i][name])
                                /\ name \notin DOMAIN rows[i] =>
                                      text.lines[i][k] = StringCell(<<>>)

\* C15 witness: a serialized bucket of two rows that hold an ARTIST cell,
\* which no field shows, and no TERRITORY cell, whose field is empty,
\* beside the amount under NET AMOUNT.
C15_Witness ==
    /\ pc = "done"
    /\ \E j \in DOMAIN processedData :
          /\ processedData[j].rowCount = 2
          /\ \A i \in 1..2 :
                /\ "ARTIST" \in DOMAIN processedData[j].rows[i]
                /\ "TERRITORY" \notin DOMAIN processedData[j].rows[i]
                /\ TextOf(j).lines[i][5] = StringCell(<<>>)
                /\ TextOf(j).lines[i][8] = StringCell(<<"1","0","0">>)
          /\ "ARTIST" \notin Range(TextOf(j).header)


----------------------------------------------------------------------------
(* App.tsx: a file that cannot be read                                     *)

\* parseFileToRawData is awaited for a file it rejects
ParseFails == pending = "parse" /\ ~file.parsed

\* C16: the step that follows a rejected parse returns to IDLE with the
\* file cleared and the failure alert shown; it invokes no processRawData
\* and leaves processedData, stats, the raw data and the selection as they
\* were.  No results exist while a parse is awaited.
C16_ParseFailureAborts ==
    [][ /\ ParseFails =>
              /\ appState' = "IDLE"
              /\ file' = NoFile
              /\ lastAlert' = "Failed to read the file. Please check format."
              /\ lastCall' = lastCall
              /\ processedData' = processedData
              /\ stats' = stats
              /\ rawData' = rawData
              /\ selectedColumns' = selectedColumns
        /\ pending' = "parse" => (processedData' = <<>> /\ stats' = NoStats) ]_vars

\* C16 witness: after an earlier file was processed, a file was rejected:
\* the app is in IDLE without a file and without results, and the last
\* processRawData invocation is still the one of the earlier file.
C16_Witness ==
    /\ lastAlert = "Failed to read the file. Please check format."
    /\ appState = "IDLE"
    /\ file = NoFile
    /\ processedData = <<>>
    /\ stats = NoStats
    /\ lastCall # NoCall
    /\ lastCall.file = FileGood


----------------------------------------------------------------------------
(* SpecZip: a grouping pass and the download of all buckets as one ZIP     *)

MaxZipRows == 3

\* every roster entry, then a name the roster does not know
ZipNames == KNOWN_COMPOSERS \o <<TextJaneDoe>>

ZipRow(name) ==
    [c \in {"Song Composer(s)", "Song Title", "Amount"} |->
        CASE c = "Song Composer(s)" -> StringCell(name)
          [] c = "Song Title" -> StringCell(TextHit)
          [] c = "Amount"     -> StringCell(<<"1","0","0">>)]

\* len rows, one a name, from the name at index start on (cyclically)
Window(start, len) ==
    [i \in 1..len |-> ZipRow(ZipNames[((start + i - 2) % Len(ZipNames)) + 1])]

\* short tables of consecutive names, and a table for every two names
ZipTables ==
    { Window(start, len) : start \in DOMAIN ZipNames, len \in 0..MaxZipRows }
    \cup { <<ZipRow(a), ZipRow(b)>> : a, b \in Range(ZipNames) }

\* zip.file(name, content): an entry of that name is replaced
ZipFile(zip, name, content) == Put(zip, name, content)

\* processedData.forEach(composer => zip.file(...)), from index j on
RECURSIVE ZipBuckets(_, _, _, _)
ZipBuckets(buckets, columns, j, zip) ==
    IF j > Len(buckets) THEN zip
    ELSE ZipBuckets(buckets, columns, j + 1,
             ZipFile(zip, buckets[j].filename,
                     generateCsvContent(buckets[j].rows, columns)))

InitZip ==
    /\ appState = "PROCESSING"
    /\ file = NoFile
    /\ rawData \in ZipTables
    /\ availableColumns = <<>>
    /\ selectedColumns \in { <<"Song Composer(s)", "Song Title", "Amount">>,
                             <<"Song Composer(s)">> }
    /\ processedData = <<>>
    /\ stats = NoStats
    /\ pending = "process"
    /\ lastCall = NoCall
    /\ lastAlert = "none"
    /\ ResolveIdle
    /\ ExportIdle
    /\ pc = "call"

\* handleDownloadAllZip: the Download All button of the results
HandleDownloadAllZip ==
    /\ appState = "COMPLETED"
    /\ pc = "done"
    /\ exported' = [kind    |-> "zip",
                    content |-> ZipBuckets(processedData, selectedColumns, 1, EmptyObject)]
    /\ pc' = "zipped"
    /\ UNCHANGED <<appVars, resolveVars, exportRows, adminPercent, showModal, dualPercent>>

NextZip ==
    \/ ProcessPass
    \/ HandleDownloadAllZip

SpecZip == InitZip /\ [][NextZip]_vars

\* C17: distinct buckets of a pass have distinct filenames (the tables hold
\* every two names of the roster and the outliers), and the ZIP of the
\* download holds exactly one entry a bucket, under the bucket's filename,
\* with the text of that bucket.
C17_OneFilePerBucket ==
    /\ pc \in {"done", "zipped"} =>
          \A j, k \in DOMAIN processedData :
              j # k => processedData[j].filename # processedData[k].filename
    /\ pc = "zipped" =>
          /\ Cardinality(DOMAIN exported.content) = Len(processedData)
          /\ Len(processedData) = stats.totalComposers
          /\ \A j \in DOMAIN processedData :
                /\ processedData[j].filename \in DOMAIN exported.content
                /\ exported.content[processedData[j].filename] =
                      generateCsvContent(processedData[j].rows, selectedColumns)

\* C17 witness: the ZIP of a table whose rows resolve to two roster entries
\* and to the outliers bucket holds three entries.
C17_Witness ==
    /\ pc = "zipped"
    /\ Len(rawData) = MaxZipRows
    /\ Len(processedData) = 3
    /\ processedData[3].composerName = OUTLIERS_GROUP
    /\ Cardinality(DOMAIN exported.content) = 3


----------------------------------------------------------------------------
(* SpecPasses: processRawData invoked several times in one session         *)

MaxPasses == 3

PassTables ==
    { <<>>,
      <<RowAlmos, RowIon>>,
      <<RowIon, RowStranger, RowAlmos>>,
      <<RowStranger, RowBlank>> }

PassColumns ==
    { <<"Song Title", "Song Composer(s)", "Amount">>,
      <<"Song Composer(s)", "TITLE">> }

\* a bucket map kept outside the invocation: the map the earlier
\* invocation filled
ModuleLevelMap(earlier) == earlier

\* const groupMap = new Map<string, RawCsvRow[]>(), whatever maps earlier
\* invocations filled
NewGroupMap(earlier) == <<>>

\* the bucket map the latest of the logged invocations filled
LatestGroupMap(calls) == IF calls = <<>> THEN <<>> ELSE calls[Len(calls)].groupMap

\* one invocation of processRawData in a session that holds the log calls
Invocation(calls, rows, columnsToKeep) ==
    LET groupMap == GroupRows(rows, columnsToKeep, 1, NewGroupMap(LatestGroupMap(calls)))
        sorted   == SortBuckets(ToBuckets(groupMap))
    IN  [rawData       |-> rows,
         columnsToKeep |-> columnsToKeep,
         groupMap      |-> groupMap,
         data          |-> sorted,
         stats         |-> [totalRows |-> Len(rows), totalComposers |-> Len(sorted)]]

InitPasses ==
    /\ AppIdle
    /\ ExportIdle
    /\ rawLabel = <<>>
    /\ variant = NoVariant
    /\ resolved = NoCalls
    /\ pc = "session"

\* processRawData(rows, columnsToKeep) invoked and resolved
Pass(rows, columnsToKeep) ==
    /\ pc = "session"
    /\ Len(resolved.calls) < MaxPasses
    /\ resolved' = [kind  |-> "log",
                    calls |-> Append(resolved.calls,
                                     Invocation(resolved.calls, rows, columnsToKeep))]
    /\ UNCHANGED <<appVars, exportVars, rawLabel, variant, pc>>

NextPasses == \E rows \in PassTables, columnsToKeep \in PassColumns : Pass(rows, columnsToKeep)

SpecPasses == InitPasses /\ [][NextPasses]_vars

\* the rows of call that are resolved to the group name
RowsOfGroup(call, name) ==
    SelectSeq(call.rawData, LAMBDA row : GroupOf(row) = name)

\* C18: two invocations with the same table and columns return equal
\* bucket sequences whatever was invoked before and between them, and the
\* buckets of an invocation hold the transformed rows of its own table and
\* no other row: a bucket for every group of the table, with the rows of
\* that group in input order.
C18_PassesKeepNoState ==
    /\ \A m, n \in DOMAIN resolved.calls :
          (/\ resolved.calls[m].rawData = resolved.calls[n].rawData
           /\ resolved.calls[m].columnsToKeep = resolved.calls[n].columnsToKeep)
              => /\ resolved.calls[m].data = resolved.calls[n].data
                 /\ resolved.calls[m].stats = resolved.calls[n].stats
    /\ \A n \in DOMAIN resolved.calls :
          LET call == resolved.calls[n]
          IN  /\ SumRowCounts(call.data) = Len(call.rawData)
              /\ \A j \in DOMAIN call.data :
                    LET own == RowsOfGroup(call, call.data[j].composerName)
                    IN  /\ own # <<>>
                        /\ call.data[j].rowCount = Len(own)
                        /\ call.data[j].rows =
                              [r \in DOMAIN own |->
                                  FilteredRow(own[r], call.columnsToKeep,
                                              IdentityOf[own[r]].cleanName)]

\* C18 witness: a table processed, then another table with rows of the
\* same groups, then the first table again with the same columns: the
\* first and the third invocation returned the same two buckets.
C18_Witness ==
    /\ Len(resolved.calls) = 3
    /\ resolved.calls[1].rawData = <<RowAlmos, RowIon>>
    /\ resolved.calls[2].rawData = <<RowIon, RowStranger, RowAlmos>>
    /\ resolved.calls[3].rawData = <<RowAlmos, RowIon>>
    /\ resolved.calls[1].columnsToKeep = resolved.calls[3].columnsToKeep
    /\ Len(resolved.calls[3].data) = 2
    /\ resolved.calls[3].data = resolved.calls[1].data


----------------------------------------------------------------------------
(* processRawData: the buckets of a pass                                   *)

\* the identities the rows of the table are resolved to
GroupsOfTable == { GroupOf(rawData[i]) : i \in DOMAIN rawData }

\* C19: a pass returns exactly one bucket for every identity a row of the
\* table is resolved to and no other bucket: the bucket names are pairwise
\* distinct and are the identities of the table, every bucket holds at
\* least one row, its rowCount is the length of its rows, and
\* stats.totalComposers is the number of buckets.
C19_OneBucketPerIdentity ==
    pc = "done" =>
        /\ \A j, k \in DOMAIN processedData :
              j # k => processedData[j].composerName # processedData[k].composerName
        /\ { processedData[j].composerName : j \in DOMAIN processedData } = GroupsOfTable
        /\ \A j \in DOMAIN processedData :
              /\ processedData[j].rowCount >= 1
              /\ processedData[j].rowCount = Len(processedData[j].rows)
        /\ stats.totalComposers = Len(processedData)
        /\ stats.totalComposers = Cardinality(GroupsOfTable)

\* C19 witness: a finished pass over a table in which two different rows
\* are resolved to one identity and a third row to another: two buckets.
C19_Witness ==
    /\ pc = "done"
    /\ \E i, k \in DOMAIN rawData :
          /\ rawData[i] # rawData[k]
          /\ GroupOf(rawData[i]) = GroupOf(rawData[k])
    /\ Cardinality(GroupsOfTable) = 2
    /\ stats.totalComposers = 2


----------------------------------------------------------------------------
(* App.tsx: handleProcess from the invocation to its outcome               *)

\* the wait of handleProcess ends: a step of ProcessResolved or of
\* ProcessRejected, the two steps that end it
PassSettles == pending = "process" /\ pending' = "none"

\* the promise of processRawData settles and the 800 ms timer fires, so the
\* continuation of handleProcess, its try block or its catch block, runs
SpecFair == Spec /\ WF_pending(PassSettles)

\* a table was handed to processRawData and handleProcess awaits it
AwaitingPass == appState = "PROCESSING" /\ pending = "process"

\* C20: the step that ends the wait of handleProcess either shows
\* COMPLETED with processedData and stats of one pass over the whole table
\* handed over, or returns to IDLE with processedData and stats as they
\* were; while the pass is awaited no result is held; and every wait ends:
\* the app does not stay in PROCESSING.
C20_PassCompletesOrFailsAtomically ==
    /\ [][ AwaitingPass =>
              \/ /\ appState' = "COMPLETED"
                 /\ processedData' = processRawData(lastCall.rawData, lastCall.columnsToKeep).data
                 /\ stats' = processRawData(lastCall.rawData, lastCall.columnsToKeep).stats
                 /\ lastCall.rawData = rawData
                 /\ lastCall.columnsToKeep = selectedColumns
                 /\ stats'.totalRows = Len(rawData)
                 /\ SumRowCounts(processedData') = Len(rawData)
                 /\ stats'.totalComposers = Len(processedData')
              \/ /\ appState' = "IDLE"
                 /\ processedData' = processedData
                 /\ stats' = stats ]_vars
    /\ [](AwaitingPass => (processedData = <<>> /\ stats = NoStats))
    /\ (AwaitingPass ~> (appState \in {"COMPLETED", "IDLE"}))

\* C20 witness: a pass failed, the file was cleared and selected again,
\* and the second pass completed: results are shown after a failure.
C20_Witness ==
    /\ appState = "COMPLETED"
    /\ lastAlert = "Failed to process data."
    /\ stats # NoStats
    /\ stats.totalRows = Len(rawData)
    /\ Len(processedData) >= 2


----------------------------------------------------------------------------
(* SpecCell: a grouping pass over rows with every kind of composer cell    *)

MaxCellRows == 2

TextPaddedJane == <<" ","J","a","n","e"," ","D","o","e"," ">>

\* what a parser can leave in the composer cell of a row
ComposerCells ==
    { NullCell, StringCell(<<>>), NumberCell(0), BooleanCell(FALSE),
      StringCell(<<" ", " ">>), StringCell(<<"U+0009">>),
      NumberCell(7),
      StringCell(TextPaddedJane),
      StringCell(<<"U+00A0">> \o OUTLIERS_GROUP),
      StringCell(<<" ">> \o toLowerCase(KNOWN_COMPOSERS[1])) }

CellRow(cell) ==
    [c \in {"Song Composer(s)", "Song Title", "Amount"} |->
        CASE c = "Song Composer(s)" -> cell
          [] c = "Song Title" -> StringCell(TextHit)
          [] c = "Amount"     -> StringCell(<<"1","0","0">>)]

\* a row of a table without the composer column in some of its rows
RowWithoutComposerCell ==
    [c \in {"Song Title", "Amount"} |->
        IF c = "Song Title" THEN StringCell(TextAlt) ELSE StringCell(<<"3">>)]

CellRows == { CellRow(cell) : cell \in ComposerCells } \cup {RowWithoutComposerCell}

CellTables == UNION { [1..n -> CellRows] : n \in 0..MaxCellRows }

InitCell ==
    /\ appState = "PROCESSING"
    /\ file = NoFile
    /\ rawData \in CellTables
    /\ availableColumns = <<>>
    /\ selectedColumns \in { <<"Song Composer(s)", "Song Title">>,
                             <<"Amount", "Song Composer(s)">> }
    /\ processedData = <<>>
    /\ stats = NoStats
    /\ pending = "process"
    /\ lastCall = NoCall
    /\ lastAlert = "none"
    /\ ResolveIdle
    /\ ExportIdle
    /\ pc = "call"

NextCell == ProcessPass

SpecCell == InitCell /\ [][NextCell]_vars

\* the composer cell of a row is missing, null or the empty string
NoComposerCell(row) ==
    \/ MANDATORY_COLUMN \notin DOMAIN row
    \/ row[MANDATORY_COLUMN] = NullCell
    \/ row[MANDATORY_COLUMN] = StringCell(<<>>)

\* the identity each row of the tables is resolved to
CellIdentityOf == [row \in CellRows |-> findActualComposer(RawComposerText(row))]

\* the group name input row i is resolved to
GroupOfRow(i) == CellIdentityOf[rawData[i]].groupName

\* the transformed row of input row i: the row of the bucket of its group
\* at the rank input row i has among the rows of that group
PlacedRow(i) ==
    LET j    == CHOOSE b \in DOMAIN processedData :
                    processedData[b].composerName = GroupOfRow(i)
        rank == Cardinality({ k \in 1..i : GroupOfRow(k) = GroupOfRow(i) })
    IN  processedData[j].rows[rank]

\* C21: a row whose composer cell is missing, null or empty is resolved
\* under the text "Unknown Composer", to the outliers group; the pass holds
\* it, with "Unknown Composer" in its COMPOSER cell, in the outliers bucket,
\* no bucket is named after the placeholder and no row is lost.
C21_PlaceholderGoesToOutliers ==
    pc = "done" =>
        /\ SumRowCounts(processedData) = Len(rawData)
        /\ \A j \in DOMAIN processedData :
              processedData[j].composerName # <<"U","n","k","n","o","w","n"," ",
                                                "C","o","m","p","o","s","e","r">>
        /\ \A i \in DOMAIN rawData :
              NoComposerCell(rawData[i]) =>
                  /\ RawComposerText(rawData[i]) =
                        <<"U","n","k","n","o","w","n"," ","C","o","m","p","o","s","e","r">>
                  /\ GroupOfRow(i) = OUTLIERS_GROUP
                  /\ Cardinality(BucketsNamed(processedData, OUTLIERS_GROUP)) = 1
                  /\ PlacedRow(i)["COMPOSER"] =
                        <<"U","n","k","n","o","w","n"," ","C","o","m","p","o","s","e","r">>

\* C21 witness: a finished pass over a row without a composer cell and a
\* row with a null composer cell: one bucket, the outliers, with both rows.
C21_Witness ==
    /\ pc = "done"
    /\ rawData = <<RowWithoutComposerCell, CellRow(NullCell)>>
    /\ Len(processedData) = 1
    /\ processedData[1].composerName = OUTLIERS_GROUP
    /\ processedData[1].rowCount = 2


----------------------------------------------------------------------------
(* SpecBase: both percentage exports of a bucket whose rows may lack a     *)
(* usable amount                                                           *)

MaxBaseRows == 2

BaseRowKinds ==
    {ExportRow(StringCell(TextHundred)), ExportRow(StringCell(TextCent)),
     ExportRow(StringCell(<<"a","b","c">>)), ExportRow(StringCell(<<>>)),
     ExportRow(NullCell), ExportRowWithoutAmount}

BaseBuckets == UNION {[1..n -> BaseRowKinds] : n \in 1..MaxBaseRows}

\* the card with its modal open and a percentage typed, or a caller about
\* to invoke the dual export
InitBase ==
    /\ AppIdle
    /\ ResolveIdle
    /\ exportRows \in BaseBuckets
    /\ exported = NoResult
    /\ \/ /\ pc = "card"
          /\ showModal = TRUE
          /\ adminPercent \in {DefaultAdminPercent, <<"1","2",".","5">>, <<"-","5">>, <<>>}
          /\ dualPercent = NoCall
       \/ /\ pc = "call"
          /\ showModal = FALSE
          /\ adminPercent = DefaultAdminPercent
          /\ dualPercent \in [admin : DualPercents, platform : DualPercents]

NextBase ==
    \/ HandleDownload
    \/ ExportDual

SpecBase == InitBase /\ [][NextBase]_vars

\* the NET AMOUNT cell of the row is missing, empty or holds no number
NoBaseAmount(row) ==
    LET cell == Get(row, "NET AMOUNT")
    IN  \/ cell.t \in {"undefined", "null"}
        \/ cell.t = "string" /\ (cell.v = <<>> \/ parseFloat(cell.v).nan)

\* the lines written when the bucket holds row i only
AloneLines(i) ==
    IF dualPercent = NoCall
    THEN generateCsvContentWithAdmin(<<exportRows[i]>>, selectedColumns,
                                     DownloadPercentage(adminPercent)).lines
    ELSE generateCsvContentWithDualPercentage(<<exportRows[i]>>, selectedColumns,
                                              dualPercent.admin, dualPercent.platform).lines

\* C22: both percentage exports write a line for every row; a row whose
\* NET AMOUNT cell is missing, empty or holds no number is written with 0
\* in each of its three amount columns; and the line of every row is the
\* line it has when it is exported alone, whatever the other rows hold.
C22_UnusableBaseIsZero ==
    pc = "done" =>
        /\ exported.kind = "csv"
        /\ Len(exported.content.lines) = Len(exportRows)
        /\ \A i \in DOMAIN exportRows :
              /\ exported.content.lines[i] = AloneLines(i)[1]
              /\ (NoBaseAmount(exportRows[i]) /\ dualPercent = NoCall) =>
                    /\ Written(i, "Gross Amount") = Zero
                    /\ Written(i, "Administration Amount") = Zero
                    /\ Written(i, "Net Amount") = Zero
              /\ (NoBaseAmount(exportRows[i]) /\ dualPercent # NoCall) =>
                    /\ WrittenDual(i, "Gross") = Zero
                    /\ WrittenDual(i, "Admin %") = Zero
                    /\ WrittenDual(i, "Net") = Zero

\* C22 witness: a single-cut export at a negative percentage of a bucket
\* whose first row holds the text abc as amount and whose second row holds
\* 100: zeros on the first line, 100 as gross amount on the second.
C22_Witness ==
    /\ pc = "done"
    /\ dualPercent = NoCall
    /\ adminPercent = <<"-","5">>
    /\ Len(exportRows) = 2
    /\ exportRows[1] = ExportRow(StringCell(<<"a","b","c">>))
    /\ Written(1, "Net Amount") = Zero
    /\ Written(2, "Gross Amount") = Hundred


----------------------------------------------------------------------------
(* processRawData: the ARTIST column                                       *)

\* every transformed row of the pass
TransformedRows ==
    UNION { Range(processedData[j].rows) : j \in DOMAIN processedData }

\* C23: every transformed row of a pass has a cell named ARTIST and the
\* cell is the empty string, whether or not a column named ARTIST was
\* selected and whatever the input row holds under that name; the pass
\* holds a transformed row for every input row.
C23_ArtistColumnIsEmpty ==
    pc = "done" =>
        /\ SumRowCounts(processedData) = Len(rawData)
        /\ \A row \in TransformedRows :
              /\ "ARTIST" \in DOMAIN row
              /\ row["ARTIST"] = <<>>

\* C23 witness: a finished pass with the input column ARTIST selected over
\* a row that holds a text in that column.
C23_Witness ==
    /\ pc = "done"
    /\ "ARTIST" \in Range(selectedColumns)
    /\ \E i \in DOMAIN rawData :
          /\ rawData[i] = RowAlmos
          /\ Get(rawData[i], "ARTIST") = StringCell(TextBand)
          /\ TransformedRowOf(i)["ARTIST"] = <<>>


----------------------------------------------------------------------------
(* processRawData: the COMPOSER cell of the rows of the outliers bucket    *)

\* the composer cell of the row is falsy: missing, null, "", 0 or false
FalsyComposerCell(row) == ~Truthy(Get(row, MANDATORY_COLUMN))

\* the text of the composer cell as the parser left it, "" when the row
\* has none or holds null
ComposerCellText(row) == CellValue(row, MANDATORY_COLUMN)

\* text without the white space before and after it
Trimmed(text) ==
    IF \A k \in DOMAIN text : text[k] \in WhiteSpace THEN <<>>
    ELSE LET first == Min({ k \in DOMAIN text : text[k] \notin WhiteSpace })
             last  == CHOOSE m \in DOMAIN text :
                          /\ text[m] \notin WhiteSpace
                          /\ \A n \in DOMAIN text : text[n] \notin WhiteSpace => n <= m
         IN  SubSeq(text, first, last)

\* C24 (as amended): for every row routed to the outliers bucket the
\* COMPOSER cell of the transformed row is the text of the row's composer
\* cell without the white space around it when the cell is a non-empty text
\* or a number other than 0, and the placeholder "Unknown Composer" when
\* the cell is missing, null, empty, 0 or false; it is the group name of
\* the outliers only when the cell holds that name.
C24_OutlierKeepsItsText ==
    pc = "done" =>
        \A i \in DOMAIN rawData :
            GroupOfRow(i) = OUTLIERS_GROUP =>
                /\ "COMPOSER" \in DOMAIN PlacedRow(i)
                /\ ~FalsyComposerCell(rawData[i]) =>
                      PlacedRow(i)["COMPOSER"] = Trimmed(ComposerCellText(rawData[i]))
                /\ FalsyComposerCell(rawData[i]) =>
                      PlacedRow(i)["COMPOSER"] = UnknownComposer
                /\ PlacedRow(i)["COMPOSER"] = OUTLIERS_GROUP =>
                      Trimmed(ComposerCellText(rawData[i])) = OUTLIERS_GROUP

\* C24 as stated: for every row routed to the outliers bucket the COMPOSER
\* cell is the text of the row's composer cell without the white space
\* around it.
C24_Original ==
    pc = "done" =>
        \A i \in DOMAIN rawData :
            GroupOfRow(i) = OUTLIERS_GROUP =>
                PlacedRow(i)["COMPOSER"] = Trimmed(ComposerCellText(rawData[i]))

\* C24 witness: a finished pass that holds in the outliers bucket a row
\* whose cell " Jane Doe " is written as "Jane Doe" and a row whose cell is
\* the empty string.
C24_Witness ==
    /\ pc = "done"
    /\ rawData = <<CellRow(StringCell(TextPaddedJane)), CellRow(StringCell(<<>>))>>
    /\ GroupOfRow(1) = OUTLIERS_GROUP
    /\ PlacedRow(1)["COMPOSER"] = TextJaneDoe
    /\ PlacedRow(2)["COMPOSER"] = UnknownComposer


----------------------------------------------------------------------------
(* The variant of findActualComposer that falls back to the first segment  *)
(* of a label split on the "&" joiner, with the roster of its module       *)

JOINER_KNOWN_COMPOSERS ==
    <<
       <<"A","l","m","o","s"," ","B","a","l","l","a">>,   \* 1: Almos Balla
       <<"A","n","d","r","e","w"," ","M","e","s","c","h","a","c">>,   \* 2: Andrew Meschac
       <<"U","t","k","a","r","s","h"," ","V","a","i","s","h","n","a","v">>,   \* 3: Utkarsh Vaishnav
       <<"F","o","t","i","s"," ","M","y","l","o","n","a","s">>,   \* 4: Fotis Mylonas
       <<"M","o","i","s","e","s"," ","A","b","r","a","h","a","m"," ","M","o","n","a","s","t","e","r","i","o">>,   \* 5: Moises Abraham Monasterio
       <<"G","u","s","t","a","v","o"," ","D","i","a","s"," ","L","e","f","f","a">>,   \* 6: Gustavo Dias Leffa
       <<"I","o","n"," ","P","u","r","i","c","e">>,   \* 7: Ion Purice
       <<"O","y","b","e","k"," ","J","a","b","b","o","r","o","v">>,   \* 8: Oybek Jabborov
       <<"A","n","d","e","r","s","o","n"," ","S","a","n","t","o","s"," ","d","e"," ","P","a","u","l","a">>,   \* 9: Anderson Santos de Paula
       <<"N","o","e","l"," ","I","v","a","n"," ","M","o","n","t","e","m","a","y","o","r">>,   \* 10: Noel Ivan Montemayor
       <<"L","A","T","I","N"," ","H","O","U","S","E"," ","G","A","N","G">>,   \* 11: LATIN HOUSE GANG
       <<"A","n","d","r","e","w"," ","S","h","o"," ","N","e","v","i","l","l","e">>,   \* 12: Andrew Sho Neville
       <<"J","e","s","u","s"," ","E","n","r","i","q","u","e"," ","F","e","r","n","a","n","d","e","z"," ","S","a","n","c","h","e","z">>,   \* 13: Jesus Enrique Fernandez Sanchez
       <<"M","i","l","t","o","n"," ","S","a","b","a","s"," ","M","a","r","t","i","n","e","z"," ","S","a","n","t","o","s">>,   \* 14: Milton Sabas Martinez Santos
       <<"A","n","d","r","e","s"," ","R","o","m","a","r","i","o"," ","R","u","b","i","o"," ","M","a","n","z","a","n","o">>,   \* 15: Andres Romario Rubio Manzano
       <<"I","a","n"," ","M","i","c","h","a","e","l"," ","B","e","r","n","a","l"," ","M","o","r","e","i","r","a">>,   \* 16: Ian Michael Bernal Moreira
       <<"R","a","u","l"," ","I","v","a","n"," ","G","a","r","c","i","a"," ","M","a","r","i","n">>,   \* 17: Raul Ivan Garcia Marin
       <<"J","e","s","u","s"," ","A","l","b","e","r","t","o"," ","L","o","p","e","z"," ","V","a","z","q","u","e","z">>,   \* 18: Jesus Alberto Lopez Vazquez
       <<"N","o","r","i","n","o","b","u"," ","Y","u">>,   \* 19: Norinobu Yu
       <<"J","o","r","g","e"," ","P","a","r","d","o"," ","C","o","r","d","e","r","o">>   \* 20: Jorge Pardo Cordero
    >>

\* normalizedKnown of each loop iteration, for the roster of the variant
JoinerNormalizedKnown ==
    [i \in DOMAIN JOINER_KNOWN_COMPOSERS |->
        normalizeForComparison(JOINER_KNOWN_COMPOSERS[i])]

\* the first for-of loop: the index of the first roster entry contained in
\* the normalized label, 0 when the loop ends
RECURSIVE JoinerScanRoster(_, _)
JoinerScanRoster(normalized, i) ==
    IF i > Len(JOINER_KNOWN_COMPOSERS) THEN 0
    ELSE IF includes(normalized, JoinerNormalizedKnown[i]) THEN i
    ELSE JoinerScanRoster(normalized, i + 1)

\* rawComposerText.split(/\s*&\s*/)[0].trim(): the text before the first "&"
\* (the whole text when there is none), trimmed
FirstPart(rawComposerText) ==
    IF "&" \in Range(rawComposerText)
    THEN trim(SubSeq(rawComposerText, 1, Min({ i \in DOMAIN rawComposerText : rawComposerText[i] = "&" }) - 1))
    ELSE trim(rawComposerText)

\* the second for-of loop: the index of the first roster entry that contains
\* the normalized first segment or is contained in it, 0 when the loop ends
RECURSIVE ScanFirstPart(_, _)
ScanFirstPart(normalizedFirst, i) ==
    IF i > Len(JOINER_KNOWN_COMPOSERS) THEN 0
    ELSE IF \/ includes(JoinerNormalizedKnown[i], normalizedFirst)
            \/ includes(normalizedFirst, JoinerNormalizedKnown[i]) THEN i
    ELSE ScanFirstPart(normalizedFirst, i + 1)

\* findActualComposer of the variant: split always yields a first part, so
\* the statement after the if is never reached
findActualComposerJoiner(rawComposerText) ==
    LET normalized == normalizeForComparison(rawComposerText)
        hit == JoinerScanRoster(normalized, 1)
        firstPart == FirstPart(rawComposerText)
        partial == ScanFirstPart(normalizeForComparison(firstPart), 1)
    IN  IF hit # 0 THEN JOINER_KNOWN_COMPOSERS[hit]
        ELSE IF partial # 0 THEN JOINER_KNOWN_COMPOSERS[partial]
        ELSE firstPart

----------------------------------------------------------------------------
(* Specification SpecJoiner: the joiner variant applied to a raw label     *)

TextIon == <<"I","o","n">>

TextJesus == <<"J","e","s","u","s">>

TextBob == <<"B","o","b">>

\* what stands before the joiner
FirstSegments ==
    Range(JOINER_KNOWN_COMPOSERS)
    \cup { TextJaneDoe, TextIon, TextJesus, UnknownComposer,
           <<"G","L"," ","-"," ">> \o TextIon,
           <<"G","L"," ","-"," ">> \o JOINER_KNOWN_COMPOSERS[7],
           Accented(JOINER_KNOWN_COMPOSERS[1]) }

\* the joiner as it is written in a label
Joiners == { <<"&">>, <<" ","&"," ">>, <<" "," ","&">>, <<"U+0009","&","U+00A0">> }

\* what stands after the joiner
SecondSegments == { TextBob, JOINER_KNOWN_COMPOSERS[1], TextJaneDoe \o <<" ","&"," ">> \o TextBob }

JoinerLabels ==
    FirstSegments
    \cup { a \o j \o b : a \in FirstSegments, j \in Joiners, b \in SecondSegments }

InitJoiner ==
    /\ AppIdle
    /\ ExportIdle
    /\ rawLabel \in JoinerLabels
    /\ variant = NoVariant
    /\ resolved = NoResult
    /\ pc = "call"

ResolveJoiner ==
    /\ pc = "call"
    /\ resolved' = [kind |-> "joiner", name |-> findActualComposerJoiner(rawLabel)]
    /\ pc' = "done"
    /\ UNCHANGED <<appVars, rawLabel, variant, exportVars>>

NextJoiner == ResolveJoiner

SpecJoiner == InitJoiner /\ [][NextJoiner]_vars

\* roster indices of the entries the normalized text contains
JoinerContained(text) ==
    { i \in DOMAIN JOINER_KNOWN_COMPOSERS :
        includes(normalizeForComparison(text), JoinerNormalizedKnown[i]) }

\* C25: when no roster entry is contained in the normalized full label, the
\* result is the first roster entry, in roster order, whose normalized form
\* is contained in the normalized first segment of the label split on "&",
\* and the trimmed first segment when there is none; a roster entry is never
\* returned for a label in which it is not contained.
C25_Original ==
    (pc = "done" /\ JoinerContained(rawLabel) = {}) =>
        /\ resolved.name =
              IF JoinerContained(FirstPart(rawLabel)) # {}
              THEN JOINER_KNOWN_COMPOSERS[Min(JoinerContained(FirstPart(rawLabel)))]
              ELSE FirstPart(rawLabel)
        /\ \A i \in DOMAIN JOINER_KNOWN_COMPOSERS :
              resolved.name = JOINER_KNOWN_COMPOSERS[i] => i \in JoinerContained(rawLabel)

\* what the fallback does: the result is the first roster entry whose
\* normalized form contains the normalized first segment, and the trimmed
\* first segment when no entry contains it.
JoinerFallbackResult ==
    (pc = "done" /\ JoinerContained(rawLabel) = {}) =>
        LET first == normalizeForComparison(FirstPart(rawLabel))
            holders == { i \in DOMAIN JOINER_KNOWN_COMPOSERS :
                           includes(JoinerNormalizedKnown[i], first) }
        IN  resolved.name =
              IF holders # {} THEN JOINER_KNOWN_COMPOSERS[Min(holders)]
              ELSE FirstPart(rawLabel)

\* a label that contains no roster entry and resolves to a roster entry
C25_Witness ==
    /\ pc = "done"
    /\ JoinerContained(rawLabel) = {}
    /\ resolved.name \in Range(JOINER_KNOWN_COMPOSERS)


----------------------------------------------------------------------------
(* processor.ts: parseFileToRawData, and the continuation of               *)
(* handleFileSelect that receives its promise                              *)

\* file.name.endsWith('.csv')
endsWith(text, suffix) ==
    /\ Len(text) >= Len(suffix)
    /\ SubSeq(text, Len(text) - Len(suffix) + 1, Len(text)) = suffix

DotCsv == <<".","c","s","v">>

\* results.meta.fields when the parser found no header row
NoFields == [kind |-> "undefined"]

Fields(items) == [kind |-> "array", items |-> items]

\* a promise that resolved with { headers, data }
Resolved(headers, data) == [kind |-> "resolved", headers |-> headers, data |-> data]

\* a promise that rejected with an error
Rejected(error) == [kind |-> "rejected", error |-> error]

\* the promise of parseFileToRawData for a file and what the libraries make
\* of it: Papa.parse calls complete(results) or error(error); the FileReader
\* calls onload or onerror, and XLSX.read or sheet_to_json may throw.  An
\* array is truthy whatever its length.
parseFileToRawData(selectedFile) ==
    IF endsWith(selectedFile.name, DotCsv)
    THEN IF selectedFile.lib = "error" THEN Rejected(selectedFile.error)
         ELSE IF selectedFile.fields.kind = "array"
              THEN Resolved(selectedFile.fields.items, selectedFile.data)
              ELSE Rejected("Could not detect headers in CSV file.")
    ELSE IF selectedFile.lib = "onerror" THEN Rejected(selectedFile.error)
         ELSE IF selectedFile.lib = "throws" THEN Rejected(selectedFile.error)
         ELSE IF Len(selectedFile.jsonData) > 0
              THEN Resolved(selectedFile.firstRowKeys, selectedFile.jsonData)
              ELSE Rejected("Excel file appears to be empty.")

----------------------------------------------------------------------------
(* Specification SpecParse: one file selected, parsed and reported         *)

\* most rows of a parsed table
MaxParseRows == 2

ParseRows == {RowIon, RowMissing, RowZero}

ParseTables == UNION { [1..n -> ParseRows] : n \in 0..MaxParseRows }

\* errors of the libraries
LibraryErrors == {"NotReadableError", "Unsupported file"}

CsvNames == { <<"a">> \o DotCsv, <<"b",".","x","l","s","x">> \o DotCsv }

OtherNames == { <<"b",".","x","l","s","x">>, <<"a",".","C","S","V">> }

\* the header rows of a CSV file without data rows
BareHeaders == { <<>>, <<"Song Title", "Amount">>, <<"Song Composer(s)", "Amount">> }

\* what Papa.parse makes of a CSV file
CsvFiles ==
    { [name |-> n, lib |-> "error", error |-> e] : n \in CsvNames, e \in LibraryErrors }
    \cup
    UNION { { [name |-> n, lib |-> "complete", fields |-> f, data |-> t] :
                n \in CsvNames,
                f \in {NoFields} \cup
                      { Fields(h) : h \in IF t = <<>> THEN BareHeaders
                                          ELSE Orders(DOMAIN t[1]) } } :
            t \in ParseTables }

\* what the FileReader and XLSX make of any other file
OtherFiles ==
    { [name |-> n, lib |-> l, error |-> e] :
        n \in OtherNames, l \in {"onerror", "throws"}, e \in LibraryErrors }
    \cup
    UNION { { [name |-> n, lib |-> "onload", jsonData |-> t, firstRowKeys |-> k] :
                n \in OtherNames,
                k \in IF t = <<>> THEN {<<>>} ELSE Orders(DOMAIN t[1]) } :
            t \in ParseTables }

InitParse ==
    /\ appState = "PROCESSING"
    /\ file \in CsvFiles \cup OtherFiles
    /\ rawData = <<>>
    /\ availableColumns = <<>>
    /\ selectedColumns = <<>>
    /\ processedData = <<>>
    /\ stats = NoStats
    /\ pending = "parse"
    /\ lastCall = NoCall
    /\ lastAlert = "none"
    /\ ResolveIdle
    /\ ExportIdle
    /\ pc = "call"

\* the promise of parseFileToRawData(selectedFile) settles
ParseSettles ==
    /\ pc = "call"
    /\ resolved' = parseFileToRawData(file)
    /\ pc' = "settled"
    /\ UNCHANGED <<appVars, rawLabel, variant, exportVars>>

\* the catch block of handleFileSelect
CatchParseError ==
    /\ pc = "settled"
    /\ resolved.kind = "rejected"
    /\ lastAlert' = "Failed to read the file. Please check format."
    /\ appState' = "IDLE"
    /\ file' = NoFile
    /\ pending' = "none"
    /\ pc' = "reported"
    /\ UNCHANGED <<rawData, availableColumns, selectedColumns, processedData, stats,
                   lastCall, resolveVars, exportVars>>

\* the header check of handleFileSelect fails
RefuseHeaders ==
    /\ pc = "settled"
    /\ resolved.kind = "resolved"
    /\ ~HeadersIncludeMandatory(resolved.headers)
    /\ lastAlert' = "Error: The file is missing the required column"
    /\ appState' = "IDLE"
    /\ file' = NoFile
    /\ pending' = "none"
    /\ pc' = "reported"
    /\ UNCHANGED <<rawData, availableColumns, selectedColumns, processedData, stats,
                   lastCall, resolveVars, exportVars>>

\* the header check of handleFileSelect passes
AcceptHeaders ==
    /\ pc = "settled"
    /\ resolved.kind = "resolved"
    /\ HeadersIncludeMandatory(resolved.headers)
    /\ availableColumns' = resolved.headers
    /\ rawData' = resolved.data
    /\ selectedColumns' = EssentialColumnsInFile(resolved.headers)
    /\ appState' = "COLUMN_SELECTION"
    /\ pending' = "none"
    /\ pc' = "selecting"
    /\ UNCHANGED <<file, processedData, stats, lastCall, lastAlert, resolveVars, exportVars>>

NextParse == ParseSettles \/ CatchParseError \/ RefuseHeaders \/ AcceptHeaders

SpecParse == InitParse /\ [][NextParse]_vars

\* the file has no column headers or no content
StructuralFailure(selectedFile) ==
    IF endsWith(selectedFile.name, DotCsv)
    THEN selectedFile.lib = "complete" /\
            (selectedFile.fields.kind = "undefined" \/ selectedFile.fields.items = <<>>)
    ELSE selectedFile.lib = "onload" /\ selectedFile.jsonData = <<>>

\* the error the failure of a file starts with
OriginalError(selectedFile) ==
    IF selectedFile.lib \in {"error", "onerror", "throws"} THEN selectedFile.error
    ELSE IF endsWith(selectedFile.name, DotCsv) THEN "Could not detect headers in CSV file."
    ELSE "Excel file appears to be empty."

\* C26: when no column headers can be discovered or the source is empty,
\* the promise of parseFileToRawData rejects with the original error and
\* never resolves with a table, and the error it rejects with is what is
\* reported to the user.
C26_Original ==
    /\ (pc = "settled" /\ StructuralFailure(file)) =>
          resolved = Rejected(OriginalError(file))
    /\ (pc = "reported" /\ resolved.kind = "rejected") =>
          lastAlert = resolved.error

\* a rejection always carries the error the failure started with
ParseRejectsWithOriginalError ==
    (pc = "settled" /\ resolved.kind = "rejected") =>
        resolved.error = OriginalError(file)

\* a CSV file whose header row is an empty array resolves with a table
EmptyHeaderRowResolves ==
    /\ pc = "settled"
    /\ StructuralFailure(file)
    /\ resolved.kind = "resolved"


----------------------------------------------------------------------------
(* processRawData: the order of the rows inside a bucket                   *)

\* what the pass makes of input row i
ExpectedRow(i) == FilteredRow(rawData[i], selectedColumns, IdentityOf[rawData[i]].cleanName)

\* position of the transformed row of input row i inside its bucket, given
\* that the rows of a bucket keep the order of their source rows
RankInBucket(i) == Cardinality({ k \in 1..i : GroupOf(rawData[k]) = GroupOf(rawData[i]) })

\* C27: within every bucket the transformed rows stand in the relative
\* order of their source rows in the input table: the row at position r of
\* a bucket is the transformed row of the r-th input row of its identity,
\* wherever the final sort has put the bucket.
C27_RowsKeepSourceOrder ==
    pc = "done" =>
        \A i \in DOMAIN rawData :
            \A j \in BucketsNamed(processedData, GroupOf(rawData[i])) :
                /\ RankInBucket(i) \in DOMAIN processedData[j].rows
                /\ processedData[j].rows[RankInBucket(i)] = ExpectedRow(i)

\* C27 witness: two input rows of one identity with different transformed
\* rows, separated by a row of another identity whose bucket the sort has
\* put before theirs although it was seen after it.
C27_Witness ==
    /\ pc = "done"
    /\ Len(rawData) = 3
    /\ GroupOf(rawData[1]) = GroupOf(rawData[3])
    /\ GroupOf(rawData[2]) # GroupOf(rawData[1])
    /\ ExpectedRow(1) # ExpectedRow(3)
    /\ Len(processedData) = 2
    /\ processedData[1].composerName = GroupOf(rawData[2])
    /\ processedData[2].rows = <<ExpectedRow(1), ExpectedRow(3)>>


----------------------------------------------------------------------------
(* App.tsx: the selected file in IDLE                                      *)

\* C28: whenever the app is in state IDLE no file is selected, after any
\* sequence of file selections, parse failures, missing-column rejections,
\* column toggles, processing successes or failures and resets.
C28_Original == appState = "IDLE" => file = NoFile

\* the app is back in IDLE after a failed pass and still holds the file:
\* FileUpload shows the file and its clear button in place of the drop zone
IdleWithFile ==
    /\ appState = "IDLE"
    /\ file # NoFile
    /\ lastAlert = "Failed to process data."


----------------------------------------------------------------------------
(* The dual percentage export with its two percentages exchanged           *)

TenThousand == FromNat(10000)

\* 100 * afterAdmin of generateCsvContentWithDualPercentage, its arithmetic
\* carried out exactly: 100 * (b - b * (p / 100)) = 100 * b - b * p
ExactAfterAdmin(b, p) == ExactSub(ExactMul(Hundred, b), ExactMul(b, p))

\* 10000 * finalNet, its arithmetic carried out exactly: the second cut is
\* taken from afterAdmin
ExactFinalNet(b, p1, p2) ==
    Let(ExactAfterAdmin(b, p1), LAMBDA a : ExactSub(ExactMul(Hundred, a), ExactMul(a, p2)))

\* b * (100 - p1) * (100 - p2)
ExactProduct(b, p1, p2) ==
    ExactMul(b, ExactMul(ExactSub(Hundred, p1), ExactSub(Hundred, p2)))

\* most rows of a bucket exported in both orders
MaxSwapRows == 2

SwapRowKinds ==
    {ExportRow(StringCell(TextHundred)), ExportRow(StringCell(TextCent)),
     ExportRow(NumberCell(7)), ExportRowWithoutAmount}

SwapBuckets == UNION {[1..n -> SwapRowKinds] : n \in 1..MaxSwapRows}

InitSwap ==
    /\ AppIdle
    /\ ResolveIdle
    /\ exportRows \in SwapBuckets
    /\ adminPercent = DefaultAdminPercent
    /\ showModal = FALSE
    /\ exported = NoResult
    /\ dualPercent \in [admin : DualPercents, platform : DualPercents]
    /\ pc = "call"

\* the bucket is exported with the two percentages in either order, and
\* with the single-cut export at the first percentage
ExportBothOrders ==
    /\ pc = "call"
    /\ exported' =
          [kind |-> "texts",
           content |->
              [first  |-> generateCsvContentWithDualPercentage(
                              exportRows, selectedColumns,
                              dualPercent.admin, dualPercent.platform),
               second |-> generateCsvContentWithDualPercentage(
                              exportRows, selectedColumns,
                              dualPercent.platform, dualPercent.admin),
               single |-> generateCsvContentWithAdmin(
                              exportRows, selectedColumns, dualPercent.admin)]]
    /\ pc' = "done"
    /\ UNCHANGED <<appVars, resolveVars, exportRows, adminPercent, showModal, dualPercent>>

NextSwap == ExportBothOrders

SpecSwap == InitSwap /\ [][NextSwap]_vars

\* the net written in line i of the dual export in the given order
NetOf(order, i) == exported.content[order].lines[i][IndexOf(DualOutputOrder, "Net")].digitsOf

\* the net written in line i of the single-cut export
SingleNetOf(i) ==
    exported.content.single.lines[i][IndexOf(AdminOutputOrder, "Net Amount")].digitsOf

\* C29: for every base b and percentages p1, p2 the final net of the dual
\* export, its arithmetic carried out exactly, is the same in both orders of
\* the percentages and is b * (100 - p1) * (100 - p2) / 10000, and with
\* p2 = 0 it is the single-cut net for p1.  The nets the export writes in
\* the two orders are that value up to the roundings of the binary64
\* computation (relative error at most 2^-51), and with p2 = 0 the written
\* net is the written single-cut net.
C29_NetIsSymmetricInPercentages ==
    pc = "done" =>
        \A i \in DOMAIN exportRows :
            LET b  == BaseAmount(exportRows[i])
                p1 == dualPercent.admin
                p2 == dualPercent.platform
            IN  /\ ExactEq(ExactFinalNet(b, p1, p2), ExactFinalNet(b, p2, p1))
                /\ ExactEq(ExactFinalNet(b, p1, p2), ExactProduct(b, p1, p2))
                /\ p2 = Zero =>
                      /\ ExactEq(ExactFinalNet(b, p1, p2),
                                 ExactMul(Hundred, ExactAfterAdmin(b, p1)))
                      /\ NetOf("first", i) = SingleNetOf(i)
                /\ Within(ExactMul(TenThousand, NetOf("first", i)), ExactProduct(b, p1, p2),
                          2 - Precision, ExactProduct(b, p1, p2))
                /\ Within(ExactMul(TenThousand, NetOf("second", i)), ExactProduct(b, p1, p2),
                          2 - Precision, ExactProduct(b, p1, p2))

\* C29 witness: a row with base 7 exported at 15 and 10 percent and at 10
\* and 15 percent: the exact nets agree, and the two written nets are two
\* neighbouring doubles.
C29_Witness ==
    /\ pc = "done"
    /\ dualPercent = [admin |-> FromNat(15), platform |-> FromNat(10)]
    /\ \E i \in DOMAIN exportRows :
          /\ BaseAmount(exportRows[i]) = FromNat(7)
          /\ ExactEq(ExactFinalNet(FromNat(7), FromNat(15), FromNat(10)),
                     ExactFinalNet(FromNat(7), FromNat(10), FromNat(15)))
          /\ NetOf("first", i) # NetOf("second", i)


----------------------------------------------------------------------------
(* processRawData: the COMPOSER cell of a transformed row                  *)

\* C30: the COMPOSER cell of every transformed row of a pass is a non-empty
\* string, whatever the composer cell of the row holds (missing, null,
\* empty, white space only, a number or any text).
C30_Original ==
    pc = "done" =>
        \A i \in DOMAIN rawData :
            /\ "COMPOSER" \in DOMAIN PlacedRow(i)
            /\ PlacedRow(i)["COMPOSER"] # <<>>

\* the composer cell of the row is a text of white space only
BlankComposerCell(row) ==
    /\ MANDATORY_COLUMN \in DOMAIN row
    /\ row[MANDATORY_COLUMN].t = "string"
    /\ row[MANDATORY_COLUMN].v # <<>>
    /\ Range(row[MANDATORY_COLUMN].v) \subseteq WhiteSpace

\* the COMPOSER cell is empty for the rows with a composer cell of white
\* space only, and for no other row
EmptyComposerOnlyForBlankCell ==
    pc = "done" =>
        \A i \in DOMAIN rawData :
            PlacedRow(i)["COMPOSER"] = <<>> <=> BlankComposerCell(rawData[i])

====
